---- MODULE Spec2Model ----
(***************************************************************************)
(* Verification model of the sxm-player worker supervision and streaming   *)
(* pipeline: the inter-process Queue, the worker run loops, the processor  *)
(* (cut extraction) and the archiver (rolling chunk capture).              *)
(*                                                                         *)
(* Each subsystem has its own specification over the shared variable       *)
(* tuple: SpecQueue, SpecWorker, SpecProc, SpecArch.  Times are integers   *)
(* in milliseconds.                                                        *)
(***************************************************************************)
EXTENDS Integers, Sequences, FiniteSets, TLC

VARIABLES
    \* ---- Queue (queue.py) ----
    q_maxsize,      \* maxsize the Queue was constructed with (0 = unbounded)
    q_items,        \* messages currently held by the queue, oldest first
    q_accepted,     \* history: every message a safe_put accepted, in call order
    q_returned,     \* history: every message a safe_get returned, in call order
    q_last,         \* the last call made on the queue and its outcome
    q_errors,       \* number of "Could not pass event" lines logged by push_event
    q_worker,       \* position of the worker that calls push_event
    \* ---- one worker process and its handles (workers/base.py, runner.py) ----
    w_kind,                 \* the worker class running in the process
    w_pc,                   \* position of the process inside start()/run()
    startup_event,          \* readiness flag, set by BaseWorker.start
    shutdown_event,         \* global shutdown flag, shared by all workers
    local_shutdown_event,   \* this worker's local shutdown flag
    hls_stream_queue,       \* inbox of an HLSStatusSubscriber
    sxm_status_queue,       \* inbox of an SXMStatusSubscriber
    w_state,                \* the worker's replicated PlayerState
    w_process,              \* FFmpeg.process: "none", "alive" or "dead"
    w_failures,             \* StatusWorker._failures
    w_published,            \* types of the events the worker pushed, in order
    w_cleanups,             \* number of times cleanup() was executed
    w_raised,               \* an exception was caught by EventedWorker.run
    w_ticks,                \* number of loop() executions so far
    w_sent,                 \* number of events the supervisor put to the inboxes
    \* ---- processor worker (workers/processor.py) ----
    p_pc,           \* "idle", "cuts" (inside loop()) or "dead" (loop() raised)
    p_todo,         \* guids of the cuts loop() still has to look at, in order
    p_channel,      \* _state.stream_channel
    p_live,         \* _state.live: the song cuts and episode markers
    p_folder,       \* chunk files of the channel's archive folder, as (start, end) names
    p_db,           \* the rows of the songs and episodes tables, in insertion order
    p_adds,         \* history: number of db.add calls per guid
    p_last,         \* history: the last splice_file call of the processor
    p_ticks,        \* number of loop() executions so far
    \* ---- archive worker (workers/archiver.py) ----
    a_pc,           \* "idle", "stopped" (local shutdown) or "dead" (loop() raised)
    a_channel,      \* _state.stream_channel
    a_live,         \* _state.live with its start time and time offset
    a_capture,      \* the file of the stream folder: exists, name_ok, size, atime
    a_cwd,          \* the working directory: "stream" (the stream folder) or "other"
    a_last_size,    \* last_size[abs_path], -1 while there is none
    a_clock,        \* the wall clock, in ms
    a_folder,       \* files of the channel's archive folder
    a_kills,        \* number of KILL_HLS_STREAM events the worker pushed
    a_last,         \* history: what the last loop() did
    a_prev,         \* history: what the loop() before it did
    a_ticks,        \* number of loop() executions so far
    \* ---- supervisor's connection state (models.py PlayerState, cli.py event_loop) ----
    b_clock,        \* time.monotonic(), in seconds
    b_failures,     \* PlayerState._failures
    b_cooldown,     \* PlayerState._cooldown
    b_last_failure, \* PlayerState._last_failure
    b_connected,    \* PlayerState._raw_channels is not None
    b_server,       \* runner.workers holds the ServerWorker
    b_attempt,      \* history: the last connect attempt (mark_attempt returned True)
    b_success,      \* history: the channels were received since the last attempt
    b_cleared,      \* history: is_connected cleared _failures since the last attempt
    \* ---- supervisor and its worker processes (runner.py, signals.py) ----
    r_sup,          \* the supervisor's position and the locals of the call it is in
    r_workers,      \* Runner.workers: the names in the table, in insertion order
    r_proc,         \* per name, the child process: none, starting, running, exit0, exit1, killed
    r_started,      \* per name, Worker.startup_event
    r_local,        \* per name, Worker.local_shutdown_event
    r_shutdown,     \* Runner.shutdown_event, shared with every worker
    r_pending,      \* per name, the call that sent a SIGTERM not handled yet, or none
    r_termcalled,   \* per name, SignalObject.terminate_called
    r_handler,      \* per name, the worker class's term_handler: default or interrupt
    r_sigs,         \* per name, signals sent by the last Worker.terminate call
    r_hist,         \* history of the calls, for the properties
    \* ---- one evented worker with the clock it reads (workers/base.py) ----
    e_pc,           \* position in EventedWorker.run: while, events, tick, cleanup, stopped
    e_hls_queue,    \* the worker's hls_stream_queue
    e_sxm_queue,    \* the worker's sxm_status_queue
    e_w,            \* [state, local, process]: PlayerState, local flag, decoder
    e_shutdown,     \* the global shutdown flag
    e_clock,        \* time.time(), whole seconds
    e_last_loop,    \* EventedWorker._last_loop
    e_published,    \* events the worker pushed to the supervisor
    e_iter,         \* history: the queues when the iteration began, the events it handled
    e_last,         \* history: the last run of the loop body
    e_sent,         \* events the supervisor relayed so far
    \* ---- the relay worker's ticks (workers/hls.py) ----
    h_pc,           \* position in run(): loop, cleanup, stopped
    h_clock,        \* time.time(), whole seconds
    h_start,        \* HLSWorker._start
    h_running,      \* _state.sxm_running
    h_process,      \* the decoder process: alive, dead, none
    h_has_file,     \* stream_file is not None
    h_exists,       \* os.path.exists(stream_file)
    h_local,        \* the worker's local shutdown flag
    h_shutdown,     \* the global shutdown flag
    h_published,    \* events pushed to the supervisor
    h_last,         \* history: the last tick
    h_termcalled,   \* SignalObject.terminate_called of the relay process
    h_sig,          \* history: the signals received and the exception raised
    \* ---- the supervisor's event handlers (handlers.py, cli.py event_loop) ----
    s_state,        \* the supervisor's PlayerState
    s_workers,      \* keys of Runner.workers
    s_procs,        \* per worker name: the processes started under that name
    s_queue,        \* Runner.event_queue, oldest first
    s_out,          \* messages the last handler pushed to worker queues
    s_hls_setup,    \* the registered relay process has run setup()
    s_count,        \* events published and server spawns so far
    \* ---- the status checker (workers/status.py) ----
    c_pc,           \* position in run(): loop, stopped
    c_running,      \* _state.sxm_running, the worker's copy
    c_failures,     \* StatusWorker._failures
    c_delay,        \* StatusWorker._delay, seconds
    c_published,    \* events pushed to the supervisor
    c_last,         \* history: the last execution of loop()
    \* ---- a subscriber's replicated state and its owner's (handlers.py) ----
    d_kind,         \* the subscribing worker: archiver, processor, cli
    d_pc,           \* the subscriber: none, running, stopped
    d_owner,        \* the supervisor's PlayerState: channels, live, stream
    d_copy,         \* the subscriber's _state: channels, live, stream
    d_inbox,        \* the subscriber's hls_stream_queue, oldest first
    d_dropped,      \* the field carried by the event whose put failed
    d_changes,      \* new values the owners have published so far
    \* ---- the processor's filename sanitizer (workers/processor.py) ----
    f_word,         \* the word _path_filter was last called with
    f_name,         \* what that call returned
    f_calls,        \* calls of _path_filter so far
    \* ---- the archiver's loop timer (workers/archiver.py, workers/base.py) ----
    t_pc,           \* the archiver: none, running
    t_boot,         \* time.time() - monotonic(): the epoch second of boot
    t_mono,         \* monotonic() now, seconds
    t_built,        \* monotonic() when __init__ ran
    t_last_loop,    \* _last_loop
    t_ticks,        \* runs of loop() so far
    t_first         \* monotonic() at the first run of loop(), -1 before it

qvars == <<q_maxsize, q_items, q_accepted, q_returned, q_last, q_errors, q_worker>>

wvars == <<w_kind, w_pc, startup_event, shutdown_event, local_shutdown_event,
           hls_stream_queue, sxm_status_queue, w_state, w_process, w_failures,
           w_published, w_cleanups, w_raised, w_ticks, w_sent>>

pvars == <<p_pc, p_todo, p_channel, p_live, p_folder, p_db, p_adds, p_last, p_ticks>>

avars == <<a_pc, a_channel, a_live, a_capture, a_cwd, a_last_size, a_clock, a_folder,
           a_kills, a_last, a_prev, a_ticks>>

bvars == <<b_clock, b_failures, b_cooldown, b_last_failure, b_connected, b_server,
           b_attempt, b_success, b_cleared>>

rvars == <<r_sup, r_workers, r_proc, r_started, r_local, r_shutdown, r_pending,
           r_termcalled, r_handler, r_sigs, r_hist>>

evars == <<e_pc, e_hls_queue, e_sxm_queue, e_w, e_shutdown, e_clock, e_last_loop,
           e_published, e_iter, e_last, e_sent>>

hvars == <<h_pc, h_clock, h_start, h_running, h_process, h_has_file, h_exists,
           h_local, h_shutdown, h_published, h_last, h_termcalled, h_sig>>

svars == <<s_state, s_workers, s_procs, s_queue, s_out, s_hls_setup, s_count>>

cvars == <<c_pc, c_running, c_failures, c_delay, c_published, c_last>>

dvars == <<d_kind, d_pc, d_owner, d_copy, d_inbox, d_dropped, d_changes>>

fvars == <<f_word, f_name, f_calls>>

tvars == <<t_pc, t_boot, t_mono, t_built, t_last_loop, t_ticks, t_first>>

vars == <<q_maxsize, q_items, q_accepted, q_returned, q_last, q_errors, q_worker,
          w_kind, w_pc, startup_event, shutdown_event, local_shutdown_event,
          hls_stream_queue, sxm_status_queue, w_state, w_process, w_failures,
          w_published, w_cleanups, w_raised, w_ticks, w_sent,
          p_pc, p_todo, p_channel, p_live, p_folder, p_db, p_adds, p_last, p_ticks,
          a_pc, a_channel, a_live, a_capture, a_cwd, a_last_size, a_clock, a_folder,
          a_kills, a_last, a_prev, a_ticks,
          b_clock, b_failures, b_cooldown, b_last_failure, b_connected, b_server,
          b_attempt, b_success, b_cleared,
          r_sup, r_workers, r_proc, r_started, r_local, r_shutdown, r_pending,
          r_termcalled, r_handler, r_sigs, r_hist,
          e_pc, e_hls_queue, e_sxm_queue, e_w, e_shutdown, e_clock, e_last_loop,
          e_published, e_iter, e_last, e_sent,
          h_pc, h_clock, h_start, h_running, h_process, h_has_file, h_exists,
          h_local, h_shutdown, h_published, h_last, h_termcalled, h_sig,
          s_state, s_workers, s_procs, s_queue, s_out, s_hls_setup, s_count,
          c_pc, c_running, c_failures, c_delay, c_published, c_last,
          d_kind, d_pc, d_owner, d_copy, d_inbox, d_dropped, d_changes,
          f_word, f_name, f_calls,
          t_pc, t_boot, t_mono, t_built, t_last_loop, t_ticks, t_first>>

\* the variables a subsystem's specification leaves alone
notq == <<wvars, pvars, avars, bvars, rvars, evars, hvars, svars, cvars, dvars, fvars, tvars>>
notw == <<qvars, pvars, avars, bvars, rvars, evars, hvars, svars, cvars, dvars, fvars, tvars>>
notp == <<qvars, wvars, avars, bvars, rvars, evars, hvars, svars, cvars, dvars, fvars, tvars>>
nota == <<qvars, wvars, pvars, bvars, rvars, evars, hvars, svars, cvars, dvars, fvars, tvars>>
notb == <<qvars, wvars, pvars, avars, rvars, evars, hvars, svars, cvars, dvars, fvars, tvars>>
notr == <<qvars, wvars, pvars, avars, bvars, evars, hvars, svars, cvars, dvars, fvars, tvars>>
note == <<qvars, wvars, pvars, avars, bvars, rvars, hvars, svars, cvars, dvars, fvars, tvars>>
noth == <<qvars, wvars, pvars, avars, bvars, rvars, evars, svars, cvars, dvars, fvars, tvars>>
nots == <<qvars, wvars, pvars, avars, bvars, rvars, evars, hvars, cvars, dvars, fvars, tvars>>
notc == <<qvars, wvars, pvars, avars, bvars, rvars, evars, hvars, svars, dvars, fvars, tvars>>
notd == <<qvars, wvars, pvars, avars, bvars, rvars, evars, hvars, svars, cvars, fvars, tvars>>
notf == <<qvars, wvars, pvars, avars, bvars, rvars, evars, hvars, svars, cvars, dvars, tvars>>
nott == <<qvars, wvars, pvars, avars, bvars, rvars, evars, hvars, svars, cvars, dvars, fvars>>

\* safe_get's None: no message
NoPayload == <<"None", "None">>
NoMsg == [id |-> 0, msg_src |-> "", msg_type |-> "None", msg |-> NoPayload]

(***************************************************************************)
(* Bounds                                                                  *)
(***************************************************************************)
MaxQueueSize == 2       \* largest maxsize a bounded Queue is built with
MaxCalls == 5           \* number of calls made on the queue in one behaviour
MaxTicks == 2           \* loop() executions of one worker lifetime
MaxSent == 2            \* events the supervisor relays to one worker
MaxCuts == 2            \* song cuts in one live metadata snapshot
MaxProcTicks == 2       \* loop() executions of the processor
MaxArchTicks == 2       \* loop() executions of the archiver
MaxClock == 760          \* monotonic seconds the supervisor is followed for
MaxCaptureSize == 2     \* size the capture file grows to

(***************************************************************************)
(* queue.py                                                                *)
(***************************************************************************)
\* the event types used by the queue specification
QueueEventTypes == {"UPDATE_CHANNELS", "KILL_HLS_STREAM"}

\* EventMessage(msg_src, msg_type, msg); id stands for the creation timestamp
EventMessage(id, msg_src, msg_type, msg) ==
    [id |-> id, msg_src |-> msg_src, msg_type |-> msg_type, msg |-> msg]

\* Queue.put(item, block=False) raises Full when maxsize messages are held;
\* a Queue built with maxsize <= 0 (Runner.create_queue passes none) is unbounded
QueueFull(items, maxsize) == maxsize > 0 /\ Len(items) >= maxsize

\* Queue.safe_put: True and appended, or False (Full caught) and unchanged
safe_put_mut_overwrite(items, maxsize, item) ==
    IF QueueFull(items, maxsize)
    THEN [ok |-> FALSE, items |-> Append(Tail(items), item)]
    ELSE [ok |-> TRUE, items |-> Append(items, item)]

safe_put(items, maxsize, item) ==
    IF QueueFull(items, maxsize)
    THEN [ok |-> FALSE, items |-> items]
    ELSE [ok |-> TRUE, items |-> Append(items, item)]

\* Queue.safe_get: the oldest message, or None (Empty caught)
safe_get_mut_lifo(items) ==
    IF items = <<>>
    THEN [item |-> NoMsg, items |-> items]
    ELSE [item |-> items[Len(items)], items |-> SubSeq(items, 1, Len(items) - 1)]

safe_get(items) ==
    IF items = <<>>
    THEN [item |-> NoMsg, items |-> items]
    ELSE [item |-> Head(items), items |-> Tail(items)]

NumCalls == q_last.n

\* the queue is not in use (specifications of the other subsystems)
IdleQueue ==
    /\ q_maxsize = 0
    /\ q_items = <<>>
    /\ q_accepted = <<>>
    /\ q_returned = <<>>
    /\ q_last = [n |-> 0, op |-> "none", arg |-> NoMsg, ok |-> FALSE, item |-> NoMsg,
                raised |-> FALSE]
    /\ q_errors = 0
    /\ q_worker = "running"

\* no worker process is modelled (specifications of the other subsystems)
IdleWorker ==
    /\ w_kind = "none"
    /\ w_pc = "stopped"
    /\ startup_event = FALSE
    /\ shutdown_event = FALSE
    /\ local_shutdown_event = FALSE
    /\ hls_stream_queue = <<>>
    /\ sxm_status_queue = <<>>
    /\ w_state = [sxm_running |-> FALSE, stream_channel |-> "None", stream_url |-> "None"]
    /\ w_process = "none"
    /\ w_failures = 0
    /\ w_published = <<>>
    /\ w_cleanups = 0
    /\ w_raised = FALSE
    /\ w_ticks = 0
    /\ w_sent = 0

\* no splice_file call was made yet
NoSplice == [guid |-> "none", time |-> 0, duration |-> 0, archive |-> <<0, 0>>,
             start_time |-> 0, end_time |-> 0]

NoLive == [has |-> FALSE, song_cuts |-> <<>>, episode_markers |-> <<>>]

Guids == {"g1", "g2", "g3", "g4", "g5", "g6", "g7"}

\* no processor is modelled (specifications of the other subsystems)
IdleProc ==
    /\ p_pc = "dead"
    /\ p_todo = <<>>
    /\ p_channel = "None"
    /\ p_live = NoLive
    /\ p_folder = {}
    /\ p_db = <<>>
    /\ p_adds = [g \in Guids |-> 0]
    /\ p_last = NoSplice
    /\ p_ticks = 0

\* _state.live is None
NoArchLive == [has |-> FALSE, has_start |-> FALSE, start_time |-> 0, time_offset |-> 0]

\* no loop() of the archiver has run
NoArchTick ==
    [path |-> "none", now |-> 0, start_time |-> 0, size |-> 0, chunks |-> 0,
     name |-> <<0, 0>>, splice |-> <<0, 0>>, existed |-> FALSE,
     created |-> {}, deleted |-> {}, removed_capture |-> FALSE]

\* no archive worker is running
IdleArch ==
    /\ a_pc = "dead"
    /\ a_channel = "None"
    /\ a_live = NoArchLive
    /\ a_capture = [exists |-> FALSE, name_ok |-> TRUE, size |-> 0, atime |-> 0]
    /\ a_cwd = "other"
    /\ a_last_size = -1
    /\ a_clock = 0
    /\ a_folder = {}
    /\ a_kills = 0
    /\ a_last = NoArchTick
    /\ a_prev = NoArchTick
    /\ a_ticks = 0

\* no connect attempt was made
NoAttempt ==
    [n |-> 0, at |-> 0, extra |-> 0, deadline |-> 0, prev_n |-> 0, prev_deadline |-> 0,
     cooldown_before |-> 0, after_success |-> FALSE, cleared |-> FALSE]

\* PlayerState(): the supervisor's connection state, before the event loop runs
IdleBackoff ==
    /\ b_clock = 0
    /\ b_failures = 0
    /\ b_cooldown = 0
    /\ b_last_failure = 0
    /\ b_connected = FALSE
    /\ b_server = FALSE
    /\ b_attempt = NoAttempt
    /\ b_success = FALSE
    /\ b_cleared = FALSE

\* the worker names the supervisor is asked to create
WorkerNames == {"hls", "sxm"}

\* the supervisor outside every call: Runner.__init__
SupIdle ==
    [pc |-> "idle", ctx |-> "none", cur |-> "none", tries |-> 0,
     joinleft |-> <<>>, still |-> <<>>, num_terminated |-> 0, num_failed |-> 0,
     ret |-> <<>>, raised |-> FALSE, creates |-> 0, fullstops |-> 0]

\* no call of create_worker, stop_workers or full_stop was made yet
NoRunnerHist ==
    [table_before |-> <<>>, create_alive |-> FALSE, create_sigs |-> 0,
     stop_set |-> {}, joined |-> {}, signalled |-> {}, alive_at_join_end |-> {},
     killed |-> 0, flag_by |-> "none", fullstopped |-> {}]

\* the supervisor with no worker (the other specifications leave it there)
IdleRunner ==
    /\ r_sup = SupIdle
    /\ r_workers = <<>>
    /\ r_proc = [w \in WorkerNames |-> "none"]
    /\ r_started = [w \in WorkerNames |-> FALSE]
    /\ r_local = [w \in WorkerNames |-> FALSE]
    /\ r_shutdown = FALSE
    /\ r_pending = [w \in WorkerNames |-> "none"]
    /\ r_termcalled = [w \in WorkerNames |-> 0]
    /\ r_handler = [w \in WorkerNames |-> "default"]
    /\ r_sigs = [w \in WorkerNames |-> 0]
    /\ r_hist = NoRunnerHist

\* time.time() when the worker process starts
StartTime == 10

\* no iteration of run() began yet
NoIteration == [start_hls |-> <<>>, start_sxm |-> <<>>, handled |-> {}]

\* the loop body did not run yet
NoLoop == [n |-> 0, at |-> 0, prev_end |-> 0, pending |-> 0, handled |-> 0]

\* a CLIPlayerWorker that was just constructed, before run()
IdleEvented ==
    /\ e_pc = "while"
    /\ e_hls_queue = <<>>
    /\ e_sxm_queue = <<>>
    /\ e_w = [state |-> [sxm_running |-> FALSE, stream_channel |-> "ch1",
                         stream_url |-> "udp1"],
              local |-> FALSE, process |-> "none"]
    /\ e_shutdown = FALSE
    /\ e_clock = StartTime
    /\ e_last_loop = 0
    /\ e_published = <<>>
    /\ e_iter = NoIteration
    /\ e_last = NoLoop
    /\ e_sent = 0

\* no signal was received yet
NoSignal == [int |-> 0, term |-> 0, last |-> "none", raised |-> "none"]

\* no tick of the relay yet
NoRelayTick == [n |-> 0, now |-> 0, running |-> FALSE, process |-> "none",
                has_file |-> FALSE, exists |-> FALSE, lines |-> FALSE,
                shutdown_before |-> FALSE]

\* a relay that was constructed without a capture folder, before setup()
IdleRelay ==
    /\ h_pc = "loop"
    /\ h_clock = 0
    /\ h_start = 0
    /\ h_running = FALSE
    /\ h_process = "alive"
    /\ h_has_file = FALSE
    /\ h_exists = FALSE
    /\ h_local = FALSE
    /\ h_shutdown = FALSE
    /\ h_published = <<>>
    /\ h_last = NoRelayTick
    /\ h_termcalled = 0
    /\ h_sig = NoSignal

\* the names Runner.workers is keyed by: the workers' NAME attributes
SupNames == {"status_check", "cli", "sxm", "hls", "archiver", "processor"}

\* no process was started under a name
NoProcs == [cur |-> "none", told |-> 0, lost |-> 0]

\* PlayerState() as main() constructs it
NewPlayerState ==
    [stream_channel |-> "None", stream_url |-> "None", channels |-> FALSE,
     sxm_running |-> FALSE, output_folder |-> FALSE]

\* a supervisor that has created no worker and received no event
IdleSup ==
    /\ s_state = NewPlayerState
    /\ s_workers = {}
    /\ s_procs = [n \in SupNames |-> NoProcs]
    /\ s_queue = <<>>
    /\ s_out = {}
    /\ s_hls_setup = FALSE
    /\ s_count = [published |-> 0, spawned |-> 0]

\* loop() of the status checker has not run yet
NoPoll == [n |-> 0, running |-> FALSE, outcome |-> "none", failures |-> 0,
           published |-> <<>>]

\* a status checker as main() creates it (sxm_status False), before run()
IdleStatus ==
    /\ c_pc = "loop"
    /\ c_running = FALSE
    /\ c_failures = 0
    /\ c_delay = 30
    /\ c_published = <<>>
    /\ c_last = NoPoll

\* channel list, live metadata and stream address all unset
NoFields == [channels |-> "None", live |-> "None", stream |-> "None"]

\* no subscriber is followed
IdleReplica ==
    /\ d_kind = "none"
    /\ d_pc = "none"
    /\ d_owner = NoFields
    /\ d_copy = NoFields
    /\ d_inbox = <<>>
    /\ d_dropped = "none"
    /\ d_changes = 0

\* _path_filter has not been called
IdleFilter ==
    /\ f_word = <<>>
    /\ f_name = <<>>
    /\ f_calls = 0

\* no archiver has been constructed
IdleTimer ==
    /\ t_pc = "none"
    /\ t_boot = 0
    /\ t_mono = 0
    /\ t_built = 0
    /\ t_last_loop = 0
    /\ t_ticks = 0
    /\ t_first = -1

InitQueueVars ==
    /\ q_maxsize \in 0..MaxQueueSize
    /\ q_items = <<>>
    /\ q_accepted = <<>>
    /\ q_returned = <<>>
    /\ q_last = [n |-> 0, op |-> "none", arg |-> NoMsg, ok |-> FALSE, item |-> NoMsg,
                raised |-> FALSE]
    /\ q_errors = 0
    /\ q_worker = "running"

\* a direct safe_put call (the supervisor's handlers.push_event path)
QueueSafePut ==
    /\ NumCalls < MaxCalls
    /\ \E t \in QueueEventTypes :
        LET item == EventMessage(NumCalls + 1, "main", t, NoPayload)
            r == safe_put(q_items, q_maxsize, item)
        IN /\ q_items' = r.items
           /\ q_accepted' = IF r.ok THEN Append(q_accepted, item) ELSE q_accepted
           /\ q_last' = [n |-> NumCalls + 1, op |-> "safe_put", arg |-> item,
                         ok |-> r.ok, item |-> NoMsg, raised |-> FALSE]
    /\ UNCHANGED <<q_maxsize, q_returned, q_errors, q_worker>>
    /\ UNCHANGED notq

\* BaseWorker.push_event: safe_put on the event queue, log an error on failure
push_event ==
    /\ q_worker = "running"
    /\ NumCalls < MaxCalls
    /\ \E t \in QueueEventTypes :
        LET item == EventMessage(NumCalls + 1, "worker", t, NoPayload)
            r == safe_put(q_items, q_maxsize, item)
        IN /\ q_items' = r.items
           /\ q_accepted' = IF r.ok THEN Append(q_accepted, item) ELSE q_accepted
           /\ q_errors' = IF r.ok THEN q_errors ELSE q_errors + 1
           /\ q_last' = [n |-> NumCalls + 1, op |-> "push_event", arg |-> item,
                         ok |-> r.ok, item |-> NoMsg, raised |-> FALSE]
    /\ UNCHANGED <<q_maxsize, q_returned, q_worker>>
    /\ UNCHANGED notq

\* a safe_get call by the consumer of the queue
QueueSafeGet ==
    /\ NumCalls < MaxCalls
    /\ LET r == safe_get(q_items)
       IN /\ q_items' = r.items
          /\ q_returned' = IF r.item = NoMsg THEN q_returned ELSE Append(q_returned, r.item)
          /\ q_last' = [n |-> NumCalls + 1, op |-> "safe_get", arg |-> NoMsg,
                        ok |-> FALSE, item |-> r.item, raised |-> FALSE]
    /\ UNCHANGED <<q_maxsize, q_accepted, q_errors, q_worker>>
    /\ UNCHANGED notq

NextQueue ==
    \/ QueueSafePut
    \/ push_event
    \/ QueueSafeGet

InitQueue == InitQueueVars /\ IdleWorker /\ IdleProc /\ IdleArch /\ IdleBackoff /\ IdleRunner /\ IdleEvented /\ IdleRelay /\ IdleSup /\ IdleStatus /\ IdleReplica /\ IdleFilter /\ IdleTimer

SpecQueue == InitQueue /\ [][NextQueue]_vars

(***************************************************************************)
(* C1: on one Queue the messages returned by safe_get are exactly the      *)
(* messages accepted by safe_put, each exactly once and in put order: the  *)
(* accepted history is the returned history followed by what is still      *)
(* queued, and no message id occurs twice among the returned ones.         *)
(***************************************************************************)
C1_FifoExactlyOnce ==
    /\ q_accepted = q_returned \o q_items
    /\ \A i, j \in 1..Len(q_returned) : i # j => q_returned[i].id # q_returned[j].id

C1_Witness ==
    /\ Len(q_returned) >= 2
    /\ q_returned[1].msg_type # q_returned[2].msg_type
    /\ Len(q_items) >= 1
    /\ q_maxsize = MaxQueueSize

(***************************************************************************)
(* C2: a safe_put (directly or through push_event) on a Queue at capacity  *)
(* returns False, raises nothing and leaves the contents unchanged; in     *)
(* every other case it returns True and the message is appended at the     *)
(* end.  A push_event that fails logs one error and the worker keeps       *)
(* running.                                                                *)
(***************************************************************************)
IsPutCall == q_last'.n # q_last.n /\ q_last'.op \in {"safe_put", "push_event"}

C2_SaturatedPut ==
    [][IsPutCall =>
        /\ ~q_last'.raised
        /\ q_worker' = "running"
        /\ IF q_maxsize > 0 /\ Len(q_items) >= q_maxsize
           THEN /\ q_last'.ok = FALSE
                /\ q_items' = q_items
                /\ q_last'.op = "push_event" => q_errors' = q_errors + 1
           ELSE /\ q_last'.ok = TRUE
                /\ q_items' = Append(q_items, q_last'.arg)
                /\ q_errors' = q_errors]_vars

C2_Witness ==
    /\ q_last.op = "push_event"
    /\ q_last.ok = FALSE
    /\ Len(q_items) = q_maxsize
    /\ q_maxsize > 0
    /\ q_errors >= 1

(***************************************************************************)
(* workers/base.py, workers/hls.py, workers/cli.py, workers/status.py,     *)
(* workers/archiver.py: one worker process from start() to the return of   *)
(* run(), with the supervisor and the decoder as its environment.          *)
(***************************************************************************)
\* worker classes: the periodic LoopedWorker and the five evented workers
EventedKinds == {"hls", "archiver", "processor", "status_check", "cli"}
WorkerKinds == {"looped"} \cup EventedKinds

\* issubclass(worker_class, SXMStatusSubscriber / HLSStatusSubscriber)
IsSXMStatusSubscriber(kind) == kind \in {"hls", "status_check", "cli"}
IsHLSStatusSubscriber(kind) == kind \in {"archiver", "processor", "cli"}

\* classes that mix in FFmpeg
HasFFmpeg(kind) == kind \in {"hls", "cli"}

StreamSet == <<"ch1", "udp1">>
StreamUnset == NoPayload

\* events the supervisor relays (handlers.hls_event / sxm_status_event)
HlsQueueEvents(id) ==
    {EventMessage(id, "main", "HLS_STREAM_STARTED", StreamSet),
     EventMessage(id, "main", "UPDATE_METADATA", NoPayload),
     EventMessage(id, "main", "KILL_HLS_STREAM", NoPayload)}
SxmQueueEvents(id) ==
    {EventMessage(id, "main", "SXM_STATUS", <<"True", "None">>),
     EventMessage(id, "main", "SXM_STATUS", <<"False", "None">>)}

\* PlayerState.stream_data setter / update_stream_data
update_stream_data(state, value) ==
    [state EXCEPT !.stream_channel = value[1], !.stream_url = value[2]]

\* FFmpeg.stop_ffmpeg: kill and reap the process, no-op when there is none
stop_ffmpeg(process) == "none"

\* FFmpeg.check_process: the process exists and its status is an active one
check_process(process) == process = "alive"

\* the effect of one cleanup() call: [process, state, published]
\* LoopedWorker.cleanup is a no-op; HLSWorker.cleanup stops the decoder and
\* pushes KILL_HLS_STREAM; CLIPlayerWorker.cleanup stops the decoder and
\* clears the stream data
cleanup(kind, process, state, published) ==
    CASE kind = "hls" ->
            [process |-> stop_ffmpeg(process), state |-> state,
             published |-> Append(published, "KILL_HLS_STREAM")]
      [] kind = "cli" ->
            [process |-> stop_ffmpeg(process),
             state |-> update_stream_data(state, StreamUnset),
             published |-> published]
      [] OTHER ->
            [process |-> process, state |-> state, published |-> published]

\* the number of cleanup() calls _handle_event makes for one event
HandlerCleanups_mut_every_kind(kind, event) ==
    IF event.msg_type = "KILL_HLS_STREAM" THEN 1 ELSE 0

HandlerCleanups(kind, event) ==
    IF kind = "cli" /\ event.msg_type = "KILL_HLS_STREAM" THEN 1 ELSE 0

\* _handle_event of SXMLoopedWorker, HLSLoopedWorker and CLIPlayerWorker:
\* the new [state, local, process]
handle_event_mut_status_clears(kind, event, state, local, process) ==
    CASE event.msg_type = "SXM_STATUS" ->
            [state |-> [update_stream_data(state, StreamUnset)
                            EXCEPT !.sxm_running = (event.msg[1] = "True")],
             local |-> local, process |-> process]
      [] event.msg_type = "HLS_STREAM_STARTED" ->
            [state |-> update_stream_data(state, event.msg),
             local |-> local, process |-> process]
      [] OTHER ->
            [state |-> state, local |-> local, process |-> process]
handle_event(kind, event, state, local, process) ==
    CASE event.msg_type = "SXM_STATUS" /\ IsSXMStatusSubscriber(kind) ->
            [state |-> [state EXCEPT !.sxm_running = (event.msg[1] = "True")],
             local |-> local, process |-> process]
      [] event.msg_type = "HLS_STREAM_STARTED" /\ IsHLSStatusSubscriber(kind) ->
            [state |-> update_stream_data(state, event.msg),
             local |-> local, process |-> process]
      [] event.msg_type = "KILL_HLS_STREAM" /\ kind \in {"archiver", "processor"} ->
            [state |-> state, local |-> TRUE, process |-> process]
      [] event.msg_type = "KILL_HLS_STREAM" /\ kind = "cli" ->
            [state |-> cleanup(kind, process, state, <<>>).state, local |-> local,
             process |-> cleanup(kind, process, state, <<>>).process]
      [] OTHER ->
            \* UPDATE_METADATA, UPDATE_CHANNELS (not part of this state) and
            \* the "Unknown event received" warning
            [state |-> state, local |-> local, process |-> process]

InitWorker ==
    /\ w_kind \in WorkerKinds
    /\ w_pc = "start"
    /\ startup_event = FALSE
    /\ shutdown_event = FALSE
    /\ local_shutdown_event = FALSE
    /\ hls_stream_queue = <<>>
    /\ sxm_status_queue = <<>>
    /\ \E running \in BOOLEAN, sd \in {StreamSet, StreamUnset} :
        \* CLIPlayerWorker.__init__ raises when it is given no channel
        /\ w_kind = "cli" => sd = StreamSet
        /\ ~IsHLSStatusSubscriber(w_kind) => sd = StreamUnset
        /\ ~IsSXMStatusSubscriber(w_kind) => running = FALSE
        /\ w_state = [sxm_running |-> running, stream_channel |-> sd[1],
                      stream_url |-> sd[2]]
    \* HLSWorker.__init__ starts the decoder
    /\ w_process = IF w_kind = "hls" THEN "alive" ELSE "none"
    /\ w_failures = 0
    /\ w_published = <<>>
    /\ w_cleanups = 0
    /\ w_raised = FALSE
    /\ w_ticks = 0
    /\ w_sent = 0

\* BaseWorker.start: install the signal handlers, set the readiness flag
WorkerStart ==
    /\ w_pc = "start"
    /\ startup_event' = TRUE
    /\ w_pc' = "setup"
    /\ UNCHANGED <<w_kind, shutdown_event, local_shutdown_event, hls_stream_queue,
                   sxm_status_queue, w_state, w_process, w_failures, w_published,
                   w_cleanups, w_raised, w_ticks, w_sent>>

\* setup(): HLSWorker publishes HLS_STREAM_STARTED, the others do nothing
WorkerSetup ==
    /\ w_pc = "setup"
    /\ w_published' = IF w_kind = "hls"
                      THEN Append(w_published, "HLS_STREAM_STARTED")
                      ELSE w_published
    /\ w_pc' = "while"
    /\ UNCHANGED <<w_kind, startup_event, shutdown_event, local_shutdown_event,
                   hls_stream_queue, sxm_status_queue, w_state, w_process, w_failures,
                   w_cleanups, w_raised, w_ticks, w_sent>>

\* the loop condition of LoopedWorker.run: the global flag only
LoopedContinue == ~shutdown_event

\* the loop condition of EventedWorker.run: neither flag is set
EventedContinue_mut_local_only == ~local_shutdown_event

EventedContinue == ~shutdown_event /\ ~local_shutdown_event

\* the while test of run()
WorkerWhile ==
    /\ w_pc = "while"
    /\ w_pc' = IF w_kind = "looped"
               THEN (IF LoopedContinue THEN "tick" ELSE "cleanup")
               ELSE (IF EventedContinue THEN "events" ELSE "cleanup")
    /\ UNCHANGED <<w_kind, startup_event, shutdown_event, local_shutdown_event,
                   hls_stream_queue, sxm_status_queue, w_state, w_process, w_failures,
                   w_published, w_cleanups, w_raised, w_ticks, w_sent>>

\* _event_queues of the worker class, in the order run() polls them
EventQueueNames(kind) ==
    CASE kind = "cli" -> <<"hls", "sxm">>
      [] kind \in {"archiver", "processor"} -> <<"hls">>
      [] kind \in {"hls", "status_check"} -> <<"sxm">>
      [] OTHER -> <<>>

\* EventedWorker.run, the for loop: one safe_get on every subscribed queue,
\* the event (if any) handled at once
WorkerEvents ==
    /\ w_pc = "events"
    /\ LET names == EventQueueNames(w_kind)
           polls_hls == \E i \in 1..Len(names) : names[i] = "hls"
           polls_sxm == \E i \in 1..Len(names) : names[i] = "sxm"
           g1 == IF polls_hls THEN safe_get(hls_stream_queue)
                 ELSE [item |-> NoMsg, items |-> hls_stream_queue]
           g2 == IF polls_sxm THEN safe_get(sxm_status_queue)
                 ELSE [item |-> NoMsg, items |-> sxm_status_queue]
           s0 == [state |-> w_state, local |-> local_shutdown_event,
                  process |-> w_process]
           s1 == IF g1.item = NoMsg THEN s0
                 ELSE handle_event(w_kind, g1.item, s0.state, s0.local, s0.process)
           s2 == IF g2.item = NoMsg THEN s1
                 ELSE handle_event(w_kind, g2.item, s1.state, s1.local, s1.process)
           n1 == IF g1.item = NoMsg THEN 0 ELSE HandlerCleanups(w_kind, g1.item)
       IN /\ hls_stream_queue' = g1.items
          /\ sxm_status_queue' = g2.items
          /\ w_state' = s2.state
          /\ local_shutdown_event' = s2.local
          /\ w_process' = s2.process
          /\ w_cleanups' = w_cleanups + n1
    /\ w_pc' = "tick"
    /\ UNCHANGED <<w_kind, startup_event, shutdown_event, w_failures, w_published,
                   w_raised, w_ticks, w_sent>>

\* where run() continues after `except Exception`: the statement after the
\* try block, self.cleanup()
ExceptClause_mut_retry == "while"
ExceptClause == "cleanup"

\* EventedWorker.run, the for loop when _handle_event raises: the event was
\* taken from its queue, the queues after it are not polled, the except
\* clause logs the exception
WorkerEventsRaise ==
    /\ w_pc = "events"
    /\ ~w_raised
    /\ LET names == EventQueueNames(w_kind)
           polls_hls == \E i \in 1..Len(names) : names[i] = "hls"
           polls_sxm == \E i \in 1..Len(names) : names[i] = "sxm"
           g1 == IF polls_hls THEN safe_get(hls_stream_queue)
                 ELSE [item |-> NoMsg, items |-> hls_stream_queue]
           g2 == IF polls_sxm THEN safe_get(sxm_status_queue)
                 ELSE [item |-> NoMsg, items |-> sxm_status_queue]
           s0 == [state |-> w_state, local |-> local_shutdown_event,
                  process |-> w_process]
           s1 == IF g1.item = NoMsg THEN s0
                 ELSE handle_event(w_kind, g1.item, s0.state, s0.local, s0.process)
           n1 == IF g1.item = NoMsg THEN 0 ELSE HandlerCleanups(w_kind, g1.item)
       IN \/ \* the handler of the stream event raises
             /\ g1.item # NoMsg
             /\ hls_stream_queue' = g1.items
             /\ UNCHANGED <<sxm_status_queue, w_state, local_shutdown_event,
                            w_process, w_cleanups>>
          \/ \* the stream event, if any, is handled; the handler of the
             \* status event raises
             /\ g2.item # NoMsg
             /\ hls_stream_queue' = g1.items
             /\ sxm_status_queue' = g2.items
             /\ w_state' = s1.state
             /\ local_shutdown_event' = s1.local
             /\ w_process' = s1.process
             /\ w_cleanups' = w_cleanups + n1
    /\ w_raised' = TRUE
    /\ w_pc' = ExceptClause
    /\ UNCHANGED <<w_kind, startup_event, shutdown_event, w_failures, w_published,
                   w_ticks, w_sent>>

\* HLSWorker.loop: the three stop conditions, else relay the decoder's stderr
\* (file_missing: the capture file is expected and still absent after 5 s;
\* lines: read_errors returned at least one line)
hls_loop_mut_never_stops(state, process, file_missing, lines) ==
    [local |-> FALSE, published |-> IF lines THEN <<"HLS_STDERROR_LINES">> ELSE <<>>]
hls_loop(state, process, file_missing, lines) ==
    IF ~state.sxm_running \/ ~check_process(process) \/ file_missing
    THEN [local |-> TRUE, published |-> <<>>]
    ELSE [local |-> FALSE,
          published |-> IF lines THEN <<"HLS_STDERROR_LINES">> ELSE <<>>]

\* ArchiveWorker.loop: no active channel stops the worker; a stalled capture
\* publishes KILL_HLS_STREAM
archiver_loop(state, stalled) ==
    IF state.stream_channel = "None"
    THEN [local |-> TRUE, published |-> <<>>]
    ELSE [local |-> FALSE,
          published |-> IF stalled THEN <<"KILL_HLS_STREAM">> ELSE <<>>]

\* StatusWorker.check_sxm
check_sxm(state, failures, is_error) ==
    IF ~state.sxm_running
    THEN [failures |-> failures, published |-> <<>>]
    ELSE IF is_error
         THEN [failures |-> failures + 1,
               published |-> IF failures + 1 > 3 THEN <<"RESET_SXM">> ELSE <<>>]
         ELSE [failures |-> 0, published |-> <<"UPDATE_CHANNELS">>]

\* CLIPlayerWorker.loop (_valid_stream_loop / _invalid_stream_loop):
\* [process, state, published, cleanups]
cli_loop(state, process, cooled) ==
    IF state.sxm_running /\ state.stream_url # "None"
    THEN IF process = "none"
         THEN [process |-> "alive", state |-> state, published |-> <<>>, cleanups |-> 0]
         ELSE IF ~check_process(process)
              THEN [process |-> cleanup("cli", process, state, <<>>).process,
                    state |-> cleanup("cli", process, state, <<>>).state,
                    published |-> <<>>, cleanups |-> 1]
              ELSE [process |-> process, state |-> state, published |-> <<>>,
                    cleanups |-> 0]
    ELSE IF process = "none"
         THEN [process |-> process, state |-> state,
               published |-> IF state.sxm_running /\ state.stream_url = "None" /\ cooled
                             THEN <<"TRIGGER_HLS_STREAM">> ELSE <<>>,
               cleanups |-> 0]
         ELSE [process |-> cleanup("cli", process, state, <<>>).process,
               state |-> cleanup("cli", process, state, <<>>).state,
               published |-> <<>>, cleanups |-> 1]

\* LoopedWorker.run: sleep(_delay), then loop()
LoopedTick ==
    /\ w_pc = "tick"
    /\ w_kind = "looped"
    /\ w_ticks' = IF w_ticks < MaxTicks THEN w_ticks + 1 ELSE w_ticks
    /\ w_pc' = "while"
    /\ UNCHANGED <<w_kind, startup_event, shutdown_event, local_shutdown_event,
                   hls_stream_queue, sxm_status_queue, w_state, w_process, w_failures,
                   w_published, w_cleanups, w_raised, w_sent>>

\* EventedWorker.run: time.time() <= _last_loop + _delay, loop() is not due
EventedTickSkip ==
    /\ w_pc = "tick"
    /\ w_kind \in EventedKinds
    /\ w_pc' = "while"
    /\ UNCHANGED <<w_kind, startup_event, shutdown_event, local_shutdown_event,
                   hls_stream_queue, sxm_status_queue, w_state, w_process, w_failures,
                   w_published, w_cleanups, w_raised, w_ticks, w_sent>>

\* EventedWorker.run: loop() is due and returns
EventedTickLoop ==
    /\ w_pc = "tick"
    /\ w_kind \in EventedKinds
    /\ w_ticks < MaxTicks
    /\ \E b1, b2 \in BOOLEAN :
        LET h == hls_loop(w_state, w_process, b1, b2)
            a == archiver_loop(w_state, b1)
            c == check_sxm(w_state, w_failures, b1)
            p == cli_loop(w_state, w_process, b1)
        IN /\ local_shutdown_event' =
                CASE w_kind = "hls" -> local_shutdown_event \/ h.local
                  [] w_kind = "archiver" -> local_shutdown_event \/ a.local
                  [] OTHER -> local_shutdown_event
           /\ w_published' =
                CASE w_kind = "hls" -> w_published \o h.published
                  [] w_kind = "archiver" -> w_published \o a.published
                  [] w_kind = "status_check" -> w_published \o c.published
                  [] w_kind = "cli" -> w_published \o p.published
                  [] OTHER -> w_published
           /\ w_failures' = IF w_kind = "status_check" THEN c.failures ELSE w_failures
           /\ w_process' = IF w_kind = "cli" THEN p.process ELSE w_process
           /\ w_state' = IF w_kind = "cli" THEN p.state ELSE w_state
           /\ w_cleanups' = IF w_kind = "cli" THEN w_cleanups + p.cleanups ELSE w_cleanups
    /\ w_ticks' = w_ticks + 1
    /\ w_pc' = "while"
    /\ UNCHANGED <<w_kind, startup_event, shutdown_event, hls_stream_queue,
                   sxm_status_queue, w_raised, w_sent>>

\* EventedWorker.run: loop() raises, the except clause logs it and leaves the loop
EventedTickRaise ==
    /\ w_pc = "tick"
    /\ w_kind \in EventedKinds
    /\ w_ticks < MaxTicks
    /\ w_raised' = TRUE
    /\ w_ticks' = w_ticks + 1
    /\ w_pc' = ExceptClause
    /\ UNCHANGED <<w_kind, startup_event, shutdown_event, local_shutdown_event,
                   hls_stream_queue, sxm_status_queue, w_state, w_process, w_failures,
                   w_published, w_cleanups, w_sent>>

\* the self.cleanup() call that ends run()
WorkerCleanup ==
    /\ w_pc = "cleanup"
    /\ LET c == cleanup(w_kind, w_process, w_state, w_published)
       IN /\ w_process' = c.process
          /\ w_state' = c.state
          /\ w_published' = c.published
    /\ w_cleanups' = w_cleanups + 1
    /\ w_pc' = "stopped"
    /\ UNCHANGED <<w_kind, startup_event, shutdown_event, local_shutdown_event,
                   hls_stream_queue, sxm_status_queue, w_failures, w_raised, w_ticks,
                   w_sent>>

\* the steps of the worker process itself
WorkerStep ==
    \/ WorkerStart
    \/ WorkerSetup
    \/ WorkerWhile
    \/ WorkerEvents
    \/ WorkerEventsRaise
    \/ LoopedTick
    \/ EventedTickSkip
    \/ EventedTickLoop
    \/ EventedTickRaise
    \/ WorkerCleanup

\* Runner.stop_workers (or a signal handler) sets the global flag
SetShutdown ==
    /\ ~shutdown_event
    /\ shutdown_event' = TRUE
    /\ UNCHANGED <<w_kind, w_pc, startup_event, local_shutdown_event, hls_stream_queue,
                   sxm_status_queue, w_state, w_process, w_failures, w_published,
                   w_cleanups, w_raised, w_ticks, w_sent>>

\* Worker.full_stop sets the worker's local flag
full_stop ==
    /\ ~local_shutdown_event
    /\ startup_event
    /\ local_shutdown_event' = TRUE
    /\ UNCHANGED <<w_kind, w_pc, startup_event, shutdown_event, hls_stream_queue,
                   sxm_status_queue, w_state, w_process, w_failures, w_published,
                   w_cleanups, w_raised, w_ticks, w_sent>>

\* handlers.hls_event: the supervisor relays an event to the stream inbox
hls_event ==
    /\ IsHLSStatusSubscriber(w_kind)
    /\ startup_event
    /\ w_sent < MaxSent
    /\ \E e \in HlsQueueEvents(w_sent + 1) :
        hls_stream_queue' = safe_put(hls_stream_queue, 0, e).items
    /\ w_sent' = w_sent + 1
    /\ UNCHANGED <<w_kind, w_pc, startup_event, shutdown_event, local_shutdown_event,
                   sxm_status_queue, w_state, w_process, w_failures, w_published,
                   w_cleanups, w_raised, w_ticks>>

\* handlers.sxm_status_event: the supervisor relays SXM_STATUS to the status inbox
sxm_status_event ==
    /\ IsSXMStatusSubscriber(w_kind)
    /\ startup_event
    /\ w_sent < MaxSent
    /\ \E e \in SxmQueueEvents(w_sent + 1) :
        sxm_status_queue' = safe_put(sxm_status_queue, 0, e).items
    /\ w_sent' = w_sent + 1
    /\ UNCHANGED <<w_kind, w_pc, startup_event, shutdown_event, local_shutdown_event,
                   hls_stream_queue, w_state, w_process, w_failures, w_published,
                   w_cleanups, w_raised, w_ticks>>

\* the decoder subprocess exits by itself
DecoderDies ==
    /\ w_process = "alive"
    /\ w_process' = "dead"
    /\ UNCHANGED <<w_kind, w_pc, startup_event, shutdown_event, local_shutdown_event,
                   hls_stream_queue, sxm_status_queue, w_state, w_failures, w_published,
                   w_cleanups, w_raised, w_ticks, w_sent>>

NextWorker ==
    \/ WorkerStep /\ UNCHANGED notw
    \/ SetShutdown /\ UNCHANGED notw
    \/ full_stop /\ UNCHANGED notw
    \/ hls_event /\ UNCHANGED notw
    \/ sxm_status_event /\ UNCHANGED notw
    \/ DecoderDies /\ UNCHANGED notw

InitWorkerSpec == InitWorker /\ IdleQueue /\ IdleProc /\ IdleArch /\ IdleBackoff /\ IdleRunner /\ IdleEvented /\ IdleRelay /\ IdleSup /\ IdleStatus /\ IdleReplica /\ IdleFilter /\ IdleTimer

SpecWorker == InitWorkerSpec /\ [][NextWorker]_vars

\* the operating system schedules the worker process: it keeps taking steps
SpecWorkerFair == SpecWorker /\ WF_vars(WorkerStep /\ UNCHANGED notw)

C4_Original ==
    (w_kind \in EventedKinds /\ w_pc = "stopped") => w_cleanups = 1

(***************************************************************************)
(* C4 amended: for the relay, the archiver, the processor and the status   *)
(* checker cleanup() is executed exactly once per lifetime (never before   *)
(* run() leaves its loop, once when it has returned), whatever stops the   *)
(* worker; the CLI player executes cleanup() once when run() returns and   *)
(* once more for every KILL_HLS_STREAM it handles and every tick that      *)
(* finds its decoder or its stream dead, so at least once.                 *)
(***************************************************************************)
C4_CleanupCount ==
    /\ w_kind \in EventedKinds \ {"cli"} =>
        /\ w_cleanups <= 1
        /\ w_pc = "stopped" <=> w_cleanups = 1
    /\ w_kind = "cli" => (w_pc = "stopped" => w_cleanups >= 1)

C4_Witness ==
    /\ w_kind = "archiver"
    /\ w_pc = "stopped"
    /\ shutdown_event
    /\ local_shutdown_event
    /\ w_sent >= 1
    /\ hls_stream_queue = <<>>
    /\ w_cleanups = 1

(***************************************************************************)
(* workers/processor.py: the processor's loop(), one cut at a time, with   *)
(* the archive folder and the live metadata as its environment.            *)
(***************************************************************************)
CUT_PADDING == 20000            \* timedelta(seconds=20), in ms
MAX_DUPLICATE_COUNT == 3

\* utils.from_fs_datetime / create_fs_datetime: file names carry whole seconds
from_fs_datetime(name) == name * 1000
create_fs_datetime(dt) == dt \div 1000

\* int(timedelta.total_seconds()): truncation toward zero
IntSeconds(ms) == IF ms >= 0 THEN ms \div 1000 ELSE -((-ms) \div 1000)

\* str.replace(old, new) on a string held as a sequence of characters
RECURSIVE Replace(_, _, _)
Replace(word, old, new) ==
    IF Len(word) < Len(old) THEN word
    ELSE IF SubSeq(word, 1, Len(old)) = old
         THEN new \o Replace(SubSeq(word, Len(old) + 1, Len(word)), old, new)
         ELSE <<Head(word)>> \o Replace(Tail(word), old, new)

\* str.strip()
RECURSIVE LStrip(_)
LStrip(word) ==
    IF word # <<>> /\ Head(word) = " " THEN LStrip(Tail(word)) ELSE word
RECURSIVE RStrip(_)
RStrip(word) ==
    IF word # <<>> /\ word[Len(word)] = " "
    THEN RStrip(SubSeq(word, 1, Len(word) - 1)) ELSE word
Strip(word) == RStrip(LStrip(word))

\* ProcessorWorker._path_filter
path_filter(word) ==
    LET w1 == Replace(word, <<"C","o","u","n","t","e","r","f","e","i","t",".">>,
                      <<"C","o","u","n","t","e","r","f","e","i","t">>)
        w2 == Replace(w1, <<"F","*","*","k","e","r">>, <<"F","u","c","k","e","r">>)
        w3 == Replace(w2, <<"T","r","u","s","t","?">>, <<"T","r","u","s","t">>)
        w4 == Replace(w3, <<"P",".","O",".","D",".">>, <<"P","O","D">>)
        w5 == Replace(w4, <<"/","/">>, <<"-">>)
        w6 == Replace(w5, <<"@">>, <<>>)
        w7 == Replace(w6, <<"(">>, <<>>)
        w8 == Replace(w7, <<")">>, <<>>)
    IN Strip(w8)

\* the cut markers the upstream can report; a guid names one marker
Cuts ==
    [g \in Guids |->
        CASE g = "g1" -> [guid |-> g, kind |-> "song", title |-> <<"A">>,
                          artist |-> <<"X">>, time |-> 100000, duration |-> 30000]
          [] g = "g2" -> [guid |-> g, kind |-> "song", title |-> <<"(", "A", ")">>,
                          artist |-> <<"X">>, time |-> 100500, duration |-> 30400]
          [] g = "g3" -> [guid |-> g, kind |-> "episode", title |-> <<"S", "/", "/", "1">>,
                          artist |-> <<>>, time |-> 60000, duration |-> 120000]
          [] g = "g5" -> [guid |-> g, kind |-> "song", title |-> <<"(", "A", ")">>,
                          artist |-> <<"X">>, time |-> 200000, duration |-> 30000]
          [] g = "g6" -> [guid |-> g, kind |-> "song", title |-> <<"(", "A", ")">>,
                          artist |-> <<"X">>, time |-> 300000, duration |-> 30000]
          [] g = "g7" -> [guid |-> g, kind |-> "song", title |-> <<"(", "A", ")">>,
                          artist |-> <<"X">>, time |-> 400000, duration |-> 30000]
          [] OTHER    -> [guid |-> g, kind |-> "song", title |-> <<"A">>,
                          artist |-> <<"X">>, time |-> 100000, duration |-> 0]]

\* the song "(A)" by X is played again later, under new cut markers
Replays == <<"g2", "g5", "g6", "g7">>

SongGuids == {g \in Guids : Cuts[g].kind = "song"} \ {"g5", "g6", "g7"}
EpisodeGuids == {g \in Guids : Cuts[g].kind = "episode"}

\* chunk files the archive folder can hold, named (start, end) in seconds
ArchiveNames == {<<110, 180>>, <<120, 200>>, <<5, 605>>}

RECURSIVE SeqsUpTo(_, _)
SeqsUpTo(S, n) ==
    IF n = 0 THEN {<<>>}
    ELSE SeqsUpTo(S, n - 1) \cup
         {Append(q, x) : q \in {r \in SeqsUpTo(S, n - 1) : Len(r) = n - 1}, x \in S}

\* the live snapshots set_raw_live can install
LiveValues ==
    {[has |-> TRUE, song_cuts |-> sc, episode_markers |-> em] :
        sc \in SeqsUpTo(SongGuids, MaxCuts),
        em \in {<<>>} \cup {<<g>> : g \in EpisodeGuids}}

\* _process_cut: start, padded_duration and end of the range looked for
CutStart(cut) == cut.time + CUT_PADDING
PaddedDuration(cut) == cut.duration + CUT_PADDING
CutEnd(cut) == CutStart(cut) + PaddedDuration(cut)

\* _process_cut: archive_start < start and archive_end > end
Covers(archive, cut) ==
    /\ from_fs_datetime(archive[1]) < CutStart(cut)
    /\ from_fs_datetime(archive[2]) > CutEnd(cut)

\* _process_cut: splice_start and splice_end, relative to the archive's start
SpliceStart(archive, cut) == CutStart(cut) - from_fs_datetime(archive[1])
SpliceEnd(archive, cut) == SpliceStart(archive, cut) + PaddedDuration(cut)

\* the splice_file(archive, path, int(...), int(...)) call of _process_cut
SpliceCall(archive, cut) ==
    [guid |-> cut.guid, time |-> cut.time, duration |-> cut.duration,
     archive |-> archive,
     start_time |-> IntSeconds(SpliceStart(archive, cut)),
     end_time |-> IntSeconds(SpliceEnd(archive, cut))]

\* db.query(table).filter_by(guid=...).first() is not None
HasGuid(db, table, guid) ==
    \E i \in 1..Len(db) : db[i].table = table /\ db[i].guid = guid

\* len(db.query(DBSong).filter_by(title=..., artist=...).all())
CountTitleArtist(db, title, artist) ==
    Cardinality({i \in 1..Len(db) :
        db[i].table = "songs" /\ db[i].title = title /\ db[i].artist = artist})

TableOf(cut) == IF cut.kind = "episode" THEN "episodes" ELSE "songs"

\* _process_cuts: the record of this guid already exists
AlreadyPersisted_mut_never(db, cut) == FALSE

AlreadyPersisted(db, cut) == HasGuid(db, TableOf(cut), cut.guid)

\* _process_cuts: the conditions under which a cut is passed over
SkipsCut(db, cut) ==
    \/ cut.duration = 0
    \/ cut.kind = "song" /\
        CountTitleArtist(db, cut.title, cut.artist) >= MAX_DUPLICATE_COUNT
    \/ AlreadyPersisted(db, cut)

\* the DBSong / DBEpisode row _process_cut builds (title and artist filtered)
DbItem(cut) ==
    [table |-> TableOf(cut), guid |-> cut.guid, title |-> path_filter(cut.title),
     artist |-> path_filter(cut.artist)]

InitProc ==
    /\ p_pc = "idle"
    /\ p_todo = <<>>
    /\ p_channel \in {"ch1", "None"}
    /\ p_live \in {NoLive} \cup LiveValues
    /\ p_folder = {}
    /\ p_db = <<>>
    /\ p_adds = [g \in Guids |-> 0]
    /\ p_last = NoSplice
    /\ p_ticks = 0

\* HLSLoopedWorker._handle_event(UPDATE_METADATA): set_raw_live; the metadata
\* and the archive folder are followed up to the last tick
ProcUpdateMetadata ==
    /\ p_pc = "idle"
    /\ p_ticks < MaxProcTicks
    /\ \E live \in LiveValues : p_live' = live /\ live # p_live
    /\ UNCHANGED <<p_pc, p_todo, p_channel, p_folder, p_db, p_adds, p_last, p_ticks>>

\* the archiver writes a chunk file into the channel's archive folder
ProcArchiveWritten ==
    /\ p_pc = "idle"
    /\ p_ticks < MaxProcTicks
    /\ \E a \in ArchiveNames \ p_folder : p_folder' = p_folder \cup {a}
    /\ UNCHANGED <<p_pc, p_todo, p_channel, p_live, p_db, p_adds, p_last, p_ticks>>

\* the archiver deletes a superseded or expired chunk file
ProcArchiveDeleted ==
    /\ p_pc = "idle"
    /\ p_ticks < MaxProcTicks
    /\ \E a \in p_folder : p_folder' = p_folder \ {a}
    /\ UNCHANGED <<p_pc, p_todo, p_channel, p_live, p_db, p_adds, p_last, p_ticks>>

\* ProcessorWorker.loop up to the _process_cuts calls: nothing to do without
\* a channel or live metadata, else the song cuts, then the episode markers
ProcLoop ==
    /\ p_pc = "idle"
    /\ p_ticks < MaxProcTicks
    /\ p_ticks' = p_ticks + 1
    /\ IF p_channel = "None" \/ ~p_live.has
       THEN UNCHANGED <<p_pc, p_todo>>
       ELSE /\ p_todo' = p_live.song_cuts \o p_live.episode_markers
            /\ p_pc' = "cuts"
    /\ UNCHANGED <<p_channel, p_live, p_folder, p_db, p_adds, p_last>>

\* _process_cuts: the cut is passed over (no duration, already persisted, or
\* the song already has MAX_DUPLICATE_COUNT rows)
ProcCutSkipped ==
    /\ p_pc = "cuts"
    /\ p_todo # <<>>
    /\ SkipsCut(p_db, Cuts[Head(p_todo)])
    /\ p_todo' = Tail(p_todo)
    /\ UNCHANGED <<p_pc, p_channel, p_live, p_folder, p_db, p_adds, p_last, p_ticks>>

\* _process_cut: no archive covers the cut, nothing happens
ProcCutNoArchive ==
    /\ p_pc = "cuts"
    /\ p_todo # <<>>
    /\ ~SkipsCut(p_db, Cuts[Head(p_todo)])
    /\ \A a \in p_folder : ~Covers(a, Cuts[Head(p_todo)])
    /\ p_todo' = Tail(p_todo)
    /\ UNCHANGED <<p_pc, p_channel, p_live, p_folder, p_db, p_adds, p_last, p_ticks>>

\* _process_cut: the first covering archive of the listing is spliced; the
\* decoder fails or writes less than 1000 bytes, no row is added
ProcCutSpliceFailed ==
    /\ p_pc = "cuts"
    /\ p_todo # <<>>
    /\ ~SkipsCut(p_db, Cuts[Head(p_todo)])
    /\ \E a \in p_folder :
        /\ Covers(a, Cuts[Head(p_todo)])
        /\ p_last' = SpliceCall(a, Cuts[Head(p_todo)])
    /\ p_todo' = Tail(p_todo)
    /\ UNCHANGED <<p_pc, p_channel, p_live, p_folder, p_db, p_adds, p_ticks>>

\* _process_cut: the splice succeeds, db.add and db.commit; guid is the
\* primary key, a second row with it makes commit raise and ends the worker
ProcCutInserted ==
    /\ p_pc = "cuts"
    /\ p_todo # <<>>
    /\ ~SkipsCut(p_db, Cuts[Head(p_todo)])
    /\ \E a \in p_folder :
        /\ Covers(a, Cuts[Head(p_todo)])
        /\ p_last' = SpliceCall(a, Cuts[Head(p_todo)])
    /\ LET item == DbItem(Cuts[Head(p_todo)])
       IN /\ p_adds' = [p_adds EXCEPT ![item.guid] = @ + 1]
          /\ IF HasGuid(p_db, item.table, item.guid)
             THEN /\ p_pc' = "dead"
                  /\ p_todo' = <<>>
                  /\ UNCHANGED p_db
             ELSE /\ p_db' = Append(p_db, item)
                  /\ p_todo' = Tail(p_todo)
                  /\ UNCHANGED p_pc
    /\ UNCHANGED <<p_channel, p_live, p_folder, p_ticks>>

\* loop() returns after the last cut
ProcLoopDone ==
    /\ p_pc = "cuts"
    /\ p_todo = <<>>
    /\ p_pc' = "idle"
    /\ UNCHANGED <<p_todo, p_channel, p_live, p_folder, p_db, p_adds, p_last, p_ticks>>

NextProc ==
    \/ ProcUpdateMetadata /\ UNCHANGED notp
    \/ ProcArchiveWritten /\ UNCHANGED notp
    \/ ProcArchiveDeleted /\ UNCHANGED notp
    \/ ProcLoop /\ UNCHANGED notp
    \/ ProcCutSkipped /\ UNCHANGED notp
    \/ ProcCutNoArchive /\ UNCHANGED notp
    \/ ProcCutSpliceFailed /\ UNCHANGED notp
    \/ ProcCutInserted /\ UNCHANGED notp
    \/ ProcLoopDone /\ UNCHANGED notp

InitProcSpec == InitProc /\ IdleQueue /\ IdleWorker /\ IdleArch /\ IdleBackoff /\ IdleRunner /\ IdleEvented /\ IdleRelay /\ IdleSup /\ IdleStatus /\ IdleReplica /\ IdleFilter /\ IdleTimer

SpecProc == InitProcSpec /\ [][NextProc]_vars

\* there was a splice_file call
Spliced == p_last # NoSplice

(***************************************************************************)
(* C5: over any number of processor ticks, at most one record with a given *)
(* guid is inserted: db.add is called at most once per guid and the tables *)
(* never hold two rows with the same guid.                                 *)
(***************************************************************************)
C5_OneRecordPerGuid ==
    \A g \in Guids :
        /\ p_adds[g] <= 1
        /\ Cardinality({i \in 1..Len(p_db) : p_db[i].guid = g}) <= 1

C5_Witness ==
    /\ p_ticks = MaxProcTicks
    /\ p_pc = "idle"
    /\ p_live.has /\ p_live.song_cuts = <<"g1", "g1">>
    /\ p_adds["g1"] = 1
    /\ <<5, 605>> \in p_folder

(***************************************************************************)
(* C6: a cut (t, d) is spliced only from a chunk [s, e] with               *)
(* s < t - padding and e > t + d + padding, that is, from a chunk that     *)
(* contains the cut and the padding on both sides.                         *)
(***************************************************************************)
C6_CoveringChunk ==
    Spliced =>
        /\ from_fs_datetime(p_last.archive[1]) < p_last.time - CUT_PADDING
        /\ from_fs_datetime(p_last.archive[2]) > p_last.time + p_last.duration + CUT_PADDING

\* the cut at 100 s is spliced from the chunk [110 s, 180 s], which starts
\* after the cut does
C6_Witness ==
    /\ Spliced
    /\ p_last.guid = "g1"
    /\ p_last.archive = <<110, 180>>
    /\ \E i \in 1..Len(p_db) : p_db[i].guid = "g1"

(***************************************************************************)
(* C7: the range handed to the decoder begins t - padding - s and ends     *)
(* t + d + padding - s seconds into the covering chunk that starts at s,   *)
(* and it lies inside the chunk.                                           *)
(***************************************************************************)
C7_SpliceRange ==
    Spliced =>
        LET s == from_fs_datetime(p_last.archive[1])
            e == from_fs_datetime(p_last.archive[2])
        IN /\ p_last.start_time = IntSeconds(p_last.time - CUT_PADDING - s)
           /\ p_last.end_time =
                IntSeconds(p_last.time + p_last.duration + CUT_PADDING - s)
           /\ 0 <= p_last.start_time
           /\ p_last.end_time * 1000 <= e - s

\* the cut (100 s, 30 s) is spliced from the chunk [5 s, 605 s], which covers
\* the cut and 20 s on both sides: the decoder is given 115 s to 165 s
C7_Witness ==
    /\ Spliced
    /\ p_last.guid = "g1"
    /\ p_last.archive = <<5, 605>>
    /\ p_last.start_time = 115
    /\ p_last.end_time = 165

(***************************************************************************)
(* workers/archiver.py: the archive worker's loop() over the capture file  *)
(* of the stream folder, with the clock, the capture and the live metadata *)
(* as its environment.                                                     *)
(***************************************************************************)
ARCHIVE_DROPOFF == 86400000     \* timedelta(hours=24), in ms
ARCHIVE_CHUNK == 600000         \* timedelta(minutes=10), in ms
ARCHIVE_BUFFER == 5000          \* timedelta(seconds=5), in ms

\* the instants the wall clock is read at, in ms
ClockTimes == {610000, 1205000, 1210500, 90000000}

\* the (start time, time offset) pairs a metadata update can carry
ArchLiveValues ==
    {NoArchLive} \cup
    {[has |-> TRUE, has_start |-> FALSE, start_time |-> 0, time_offset |-> 0]} \cup
    {[has |-> TRUE, has_start |-> TRUE, start_time |-> st[1], time_offset |-> st[2]] :
        st \in {<<0, 0>>, <<500, 0>>, <<0, 5000>>}}

\* what the decoder run by splice_file can do: exit 0, or exit non-zero with
\* or without an output file left behind
DecoderOutcomes == {"ok", "failed", "failed_partial"}

\* int(a / b) of two timedeltas: the quotient truncated toward zero
TruncDiv(a, b) == IF a >= 0 THEN a \div b ELSE -((-a) \div b)

\* PlayerState.radio_time or datetime.now(timezone.utc)
ArchNow(live, clock) == IF live.has THEN clock - live.time_offset ELSE clock

\* PlayerState.start_time or the capture file's access time
ArchStartTime(live, capture) ==
    IF live.has /\ live.has_start THEN live.start_time ELSE capture.atime

\* _process_stream_file: archive_chunks
archive_chunks_mut_no_buffer(now, start_time) ==
    TruncDiv(now - start_time, ARCHIVE_CHUNK)

archive_chunks(now, start_time) ==
    TruncDiv((now - ARCHIVE_BUFFER) - (start_time + ARCHIVE_BUFFER), ARCHIVE_CHUNK)

\* _process_stream_file: archive_base and the end of archive_filename
ArchiveName(start_time, chunks) ==
    <<create_fs_datetime(start_time + ARCHIVE_BUFFER),
      create_fs_datetime(start_time + ARCHIVE_BUFFER + chunks * ARCHIVE_CHUNK)>>

\* _process_stream_file: the start and end seconds given to splice_file
ArchiveSplice(chunks) ==
    <<IntSeconds(ARCHIVE_BUFFER), IntSeconds(ARCHIVE_BUFFER + chunks * ARCHIVE_CHUNK)>>

\* _check_size
check_size_mut_always(last_size, current) == TRUE

check_size(last_size, current) == ~(last_size # -1 /\ last_size = current)

\* _delete_old_archives: the files it removes
delete_old_archives_mut_age_only(folder, archive_base, current_file, clock) ==
    {f \in folder : clock - f.at > ARCHIVE_DROPOFF}

delete_old_archives(folder, archive_base, current_file, clock) ==
    {f \in folder :
        \/ f.name[1] = archive_base /\ f.name # current_file
        \/ clock - f.at > ARCHIVE_DROPOFF}

\* _process_stream_file
process_stream_file(live, capture, folder, clock, outcome) ==
    LET now == ArchNow(live, clock)
        start_time == ArchStartTime(live, capture)
        chunks == archive_chunks(now, start_time)
        name == ArchiveName(start_time, chunks)
        tick == [NoArchTick EXCEPT !.now = now, !.start_time = start_time,
                                   !.size = capture.size, !.chunks = chunks]
    IN IF chunks > 0
       THEN IF \E f \in folder : f.name = name
            THEN [tick EXCEPT !.path = "exists", !.name = name, !.existed = TRUE]
            ELSE [tick EXCEPT
                    !.path = IF outcome = "ok" THEN "rolled" ELSE "splice_failed",
                    !.name = name,
                    !.splice = ArchiveSplice(chunks),
                    !.deleted = delete_old_archives(folder, name[1], name, clock),
                    !.created = IF outcome = "failed" THEN {}
                                ELSE {[name |-> name, at |-> clock,
                                       whole |-> outcome = "ok"]}]
       ELSE [tick EXCEPT !.path = "no_chunk"]

\* loop() with _process_file, _validate_name and _validate_size
archiver_tick(channel, live, capture, cwd, last_size, folder, clock, outcome) ==
    IF channel = "None" THEN [NoArchTick EXCEPT !.path = "no_channel"]
    ELSE IF ~capture.exists THEN [NoArchTick EXCEPT !.path = "no_file"]
    ELSE IF ~capture.name_ok
         THEN IF cwd = "stream"
              THEN [NoArchTick EXCEPT !.path = "bad_name", !.size = capture.size,
                                      !.removed_capture = TRUE]
              ELSE [NoArchTick EXCEPT !.path = "raised", !.size = capture.size]
    ELSE IF ~check_size(last_size, capture.size)
         THEN [NoArchTick EXCEPT !.path = "stale", !.size = capture.size,
                                 !.now = ArchNow(live, clock),
                                 !.start_time = ArchStartTime(live, capture)]
    ELSE process_stream_file(live, capture, folder, clock, outcome)

\* the tick got as far as _process_stream_file
ReachedChunks(tick) == tick.path \in {"no_chunk", "exists", "rolled", "splice_failed"}

\* _validate_size: push_event(KILL_HLS_STREAM) when _check_size fails
PushesKill_mut_never(tick) == FALSE

PushesKill(tick) == tick.path = "stale"

\* the tick got as far as _check_size
CheckedSize(tick) == tick.path = "stale" \/ ReachedChunks(tick)

\* the tick looked at a capture file
SawCapture(tick) == ReachedChunks(tick) \/ tick.path \in {"bad_name", "raised", "stale"}

InitArch ==
    /\ a_pc = "idle"
    /\ a_channel \in {"ch1", "None"}
    /\ a_live \in ArchLiveValues
    /\ \E ok \in BOOLEAN :
        a_capture = [exists |-> TRUE, name_ok |-> ok, size |-> 1, atime |-> 1000]
    /\ a_cwd \in {"stream", "other"}
    /\ a_last_size = -1
    /\ a_clock = 2000
    /\ a_folder = {}
    /\ a_kills = 0
    /\ a_last = NoArchTick
    /\ a_prev = NoArchTick
    /\ a_ticks = 0

\* time passes
ArchClockAdvances ==
    /\ a_pc = "idle"
    /\ \E t \in ClockTimes : t > a_clock /\ a_clock' = t
    /\ UNCHANGED <<a_pc, a_channel, a_live, a_capture, a_cwd, a_last_size, a_folder,
                   a_kills, a_last, a_prev, a_ticks>>

\* the relay's decoder appends to the capture file
ArchCaptureGrows ==
    /\ a_pc = "idle"
    /\ a_capture.exists
    /\ a_capture.size < MaxCaptureSize
    /\ a_capture' = [a_capture EXCEPT !.size = @ + 1]
    /\ UNCHANGED <<a_pc, a_channel, a_live, a_cwd, a_last_size, a_clock, a_folder,
                   a_kills, a_last, a_prev, a_ticks>>

\* HLSLoopedWorker._handle_event(UPDATE_METADATA): set_raw_live
ArchUpdateMetadata ==
    /\ a_pc = "idle"
    /\ \E live \in ArchLiveValues : live # a_live /\ a_live' = live
    /\ UNCHANGED <<a_pc, a_channel, a_capture, a_cwd, a_last_size, a_clock, a_folder,
                   a_kills, a_last, a_prev, a_ticks>>

\* ArchiveWorker.loop, whole
ArchLoop ==
    /\ a_pc = "idle"
    /\ a_ticks < MaxArchTicks
    /\ a_ticks' = a_ticks + 1
    /\ \E outcome \in DecoderOutcomes :
        LET tick == archiver_tick(a_channel, a_live, a_capture, a_cwd, a_last_size,
                                  a_folder, a_clock, outcome)
        IN /\ a_last' = tick
           /\ a_prev' = a_last
           /\ a_pc' = CASE tick.path = "no_channel" -> "stopped"
                        [] tick.path = "raised" -> "dead"
                        [] OTHER -> "idle"
           /\ a_capture' = IF tick.removed_capture
                           THEN [a_capture EXCEPT !.exists = FALSE]
                           ELSE a_capture
           /\ a_last_size' = IF ReachedChunks(tick) THEN a_capture.size ELSE a_last_size
           /\ a_kills' = IF PushesKill(tick) THEN a_kills + 1 ELSE a_kills
           /\ a_folder' = (a_folder \ tick.deleted) \cup tick.created
    /\ UNCHANGED <<a_channel, a_live, a_cwd, a_clock>>

NextArch ==
    \/ ArchClockAdvances /\ UNCHANGED nota
    \/ ArchCaptureGrows /\ UNCHANGED nota
    \/ ArchUpdateMetadata /\ UNCHANGED nota
    \/ ArchLoop /\ UNCHANGED nota

InitArchSpec == InitArch /\ IdleQueue /\ IdleWorker /\ IdleProc /\ IdleBackoff /\ IdleRunner /\ IdleEvented /\ IdleRelay /\ IdleSup /\ IdleStatus /\ IdleReplica /\ IdleFilter /\ IdleTimer

SpecArch == InitArchSpec /\ [][NextArch]_vars

\* floor((now - T0 - 2B) / C) for the now and T0 of a tick
FloorChunks(tick) == (tick.now - tick.start_time - 2 * ARCHIVE_BUFFER) \div ARCHIVE_CHUNK

(***************************************************************************)
(* C8: on an archiver tick that computes the chunk count from the capture  *)
(* start T0 and the current time now, n = floor((now - T0 - 2B) / C).      *)
(* When n >= 1 (and the file is not there yet) the decoder is asked for    *)
(* exactly one file, named for [T0 + B, T0 + B + n*C] at one-second        *)
(* resolution and cut from second B to second B + n*C of the capture, and  *)
(* that one file is what a decoder exiting 0 produces; when n < 1 nothing  *)
(* is asked for and nothing is produced.                                   *)
(***************************************************************************)
C8_WholeChunks ==
    ReachedChunks(a_last) =>
        LET n == FloorChunks(a_last)
            T0 == a_last.start_time
        IN /\ n >= 1 => a_last.chunks = n
           /\ n >= 1 <=> a_last.path # "no_chunk"
           /\ Cardinality(a_last.created) <= 1
           /\ (n >= 1 /\ ~a_last.existed) =>
                /\ a_last.name = <<(T0 + ARCHIVE_BUFFER) \div 1000,
                                   (T0 + ARCHIVE_BUFFER + n * ARCHIVE_CHUNK) \div 1000>>
                /\ a_last.splice = <<5, 5 + n * 600>>
                /\ \A f \in a_last.created : f.name = a_last.name
                /\ a_last.path = "rolled" =>
                        /\ Cardinality(a_last.created) = 1
                        /\ a_last.created \subseteq a_folder
                        /\ \A f \in a_last.created : f.whole
           /\ n < 1 => a_last.created = {} /\ a_last.deleted = {}

\* now = T0 + 1205 s gives the one file covering [T0 + 5, T0 + 605]
C8_Witness ==
    /\ a_last.path = "rolled"
    /\ a_last.start_time = 0
    /\ a_last.now = 1205000
    /\ \E f \in a_folder : f.name = <<5, 605>> /\ f.whole

(***************************************************************************)
(* C9: if the chunk-rolling step runs twice against a capture file that    *)
(* did not change, and no further whole chunk interval elapsed between the *)
(* runs, the second run creates no file and deletes no file.               *)
(***************************************************************************)
C9_Idempotent ==
    (/\ SawCapture(a_prev) /\ SawCapture(a_last)
     /\ a_prev.path # "bad_name"
     /\ a_last.size = a_prev.size
     /\ FloorChunks(a_last) <= FloorChunks(a_prev))
        => /\ a_last.created = {}
           /\ a_last.deleted = {}
           /\ ~a_last.removed_capture

\* the first run's decoder failed, so the chunk is still missing when the
\* second run starts
C9_Witness ==
    /\ a_prev.path = "splice_failed"
    /\ a_prev.created = {}
    /\ FloorChunks(a_prev) = 1
    /\ a_last.path = "stale"
    /\ a_last.size = a_prev.size
    /\ FloorChunks(a_last) = 1
    /\ a_folder = {}

(***************************************************************************)
(* C10: after a tick that rolls a new chunk, exactly one file with the new *)
(* chunk's archive_base is left in the archive folder: the new chunk,      *)
(* which is the most recently written one.                                 *)
(***************************************************************************)
C10_Supersession ==
    a_last.path = "rolled" =>
        LET same == {f \in a_folder : f.name[1] = a_last.name[1]}
        IN /\ Cardinality(same) = 1
           /\ same = a_last.created
           /\ \A f \in same : \A g \in a_last.deleted : g.at <= f.at

\* the chunk [5 s, 605 s] is superseded by the chunk [5 s, 1205 s]
C10_Witness ==
    /\ a_last.path = "rolled"
    /\ a_last.name = <<5, 1205>>
    /\ \E g \in a_last.deleted : g.name = <<5, 605>> /\ g.at < a_clock

(***************************************************************************)
(* C11: when the capture file's size at an archiver tick equals its size   *)
(* at the previous tick, the tick publishes KILL_HLS_STREAM and produces   *)
(* no archive chunk from the file; when the size differs, the tick         *)
(* publishes no KILL_HLS_STREAM.                                           *)
(***************************************************************************)
C11_StaleCapture ==
    [][(a_ticks' = a_ticks + 1 /\ CheckedSize(a_last) /\ CheckedSize(a_last'))
        => IF a_last'.size = a_last.size
           THEN /\ a_kills' = a_kills + 1
                /\ a_last'.created = {}
                /\ a_folder' = a_folder
           ELSE a_kills' = a_kills]_vars

\* a stale tick after a tick that rolled a chunk, and one event published
C11_Witness ==
    /\ a_prev.path = "rolled"
    /\ a_last.path = "stale"
    /\ a_last.size = a_prev.size
    /\ a_kills = 1

(***************************************************************************)
(* models.py PlayerState and cli.py event_loop: the supervisor's reconnect *)
(* backoff.  Time is time.monotonic() in whole seconds.                    *)
(***************************************************************************)
COOLDOWN_SHORT == 10
COOLDOWN_MED == 60
COOLDOWN_LONG == 600
CONNECTED_CLEAR_SECS == 300     \* is_connected: monotonic() - _last_failure > 300

\* the instants the next iteration of the event loop can run at: just after the
\* cooldown deadline, just after is_connected starts to clear _failures, or a
\* while later
NextInstants(clock, cooldown, last_failure) ==
    {t \in {cooldown + 1, last_failure + CONNECTED_CLEAR_SECS + 1, clock + 100} :
        t > clock}

\* what event_queue.safe_get() hands to one iteration: nothing, the channel
\* list sent by the ServerWorker, or RESET_SXM sent by the StatusWorker
LoopEvents == {"none", "channels", "reset"}

\* increase_cooldown: extra_seconds
CooldownTier_mut_short_only(failures) == COOLDOWN_SHORT

CooldownTier(failures) ==
    IF failures < 3 THEN COOLDOWN_SHORT
    ELSE IF failures < 5 THEN COOLDOWN_MED
    ELSE COOLDOWN_LONG

\* can_connect
can_connect(clock, cooldown) == clock > cooldown

\* is_connected clears _failures
ClearsFailures(connected, clock, last_failure) ==
    connected /\ clock - last_failure > CONNECTED_CLEAR_SECS

\* is_connected: the value of _failures it leaves
is_connected_failures_mut_on_connect(connected, failures, clock, last_failure) ==
    IF connected THEN 0 ELSE failures

is_connected_failures(connected, failures, clock, last_failure) ==
    IF ClearsFailures(connected, clock, last_failure) THEN 0 ELSE failures

InitBackoff == IdleBackoff

\* time passes between two iterations
BackoffTimePasses ==
    /\ \E t \in NextInstants(b_clock, b_cooldown, b_last_failure) :
        /\ t <= MaxClock
        /\ b_clock' = t
    /\ UNCHANGED <<b_failures, b_cooldown, b_last_failure, b_connected, b_server,
                   b_attempt, b_success, b_cleared>>

\* cli.py event_loop, whole: the connect attempt, then one event handled by
\* handle_update_channels_event or handle_reset_sxm_event
event_loop ==
    \E event \in LoopEvents :
        LET \* if not state.is_connected
            f1 == is_connected_failures(b_connected, b_failures, b_clock, b_last_failure)
            cleared1 == b_cleared \/ ClearsFailures(b_connected, b_clock, b_last_failure)
            \* state.mark_attempt: mark_failure, increase_cooldown, spawn_sxm_worker
            attempt == ~b_connected /\ can_connect(b_clock, b_cooldown)
            f2 == IF attempt THEN f1 + 1 ELSE f1
            last_failure2 == IF attempt THEN b_clock ELSE b_last_failure
            cooldown2 == IF attempt THEN b_clock + CooldownTier(f2) ELSE b_cooldown
            server2 == b_server \/ attempt
            \* handle_event
            got_channels == event = "channels" /\ server2
            got_reset == event = "reset" /\ server2
            connected3 == IF got_channels THEN TRUE
                          ELSE IF got_reset THEN FALSE ELSE b_connected
            cooldown3 == IF got_reset THEN b_clock + CooldownTier(f2) ELSE cooldown2
            \* was_connected is False and state.is_connected
            recheck == got_channels /\ ~b_connected
            f3 == IF recheck
                  THEN is_connected_failures(connected3, f2, b_clock, last_failure2)
                  ELSE f2
            cleared3 == (IF attempt THEN FALSE ELSE cleared1)
                            \/ (recheck /\ ClearsFailures(connected3, b_clock, last_failure2))
        IN /\ (event = "channels" => server2)
           /\ b_failures' = f3
           /\ b_last_failure' = last_failure2
           /\ b_cooldown' = cooldown3
           /\ b_server' = (server2 /\ ~got_reset)
           /\ b_connected' = connected3
           /\ b_attempt' = IF attempt
                           THEN [n |-> f2, at |-> b_clock, extra |-> CooldownTier(f2),
                                 deadline |-> cooldown2, prev_n |-> b_attempt.n,
                                 prev_deadline |-> b_attempt.deadline,
                                 cooldown_before |-> b_cooldown,
                                 after_success |-> b_success, cleared |-> b_cleared]
                           ELSE b_attempt
           /\ b_success' = ((IF attempt THEN FALSE ELSE b_success) \/ got_channels)
           /\ b_cleared' = cleared3
           /\ UNCHANGED b_clock

NextBackoff ==
    \/ BackoffTimePasses /\ UNCHANGED notb
    \/ event_loop /\ UNCHANGED notb

InitBackoffSpec == InitBackoff /\ IdleQueue /\ IdleWorker /\ IdleProc /\ IdleArch /\ IdleRunner /\ IdleEvented /\ IdleRelay /\ IdleSup /\ IdleStatus /\ IdleReplica /\ IdleFilter /\ IdleTimer

SpecBackoff == InitBackoffSpec /\ [][NextBackoff]_vars

(***************************************************************************)
(* C12 as stated: the cooldown set by a connect attempt depends only on    *)
(* the count of consecutive failed attempts (first and second: 10 s,       *)
(* third: 60 s, later ones up to 600 s), and no connect attempt is made    *)
(* before the deadline set by the previous attempt has passed.             *)
(***************************************************************************)
C12_Original ==
    b_attempt.n >= 1 =>
        /\ b_attempt.n <= 2 => b_attempt.extra = 10
        /\ b_attempt.n = 3 => b_attempt.extra = 60
        /\ b_attempt.n >= 4 => b_attempt.extra \in {60, 600}
        /\ b_attempt.deadline = b_attempt.at + b_attempt.extra
        /\ b_attempt.prev_n >= 1 => b_attempt.at > b_attempt.prev_deadline

(***************************************************************************)
(* C12 amended: the cooldown set by a connect attempt depends only on the  *)
(* value of the failure counter, which counts the attempts made since it   *)
(* was last cleared: 10 s for the first and second, 60 s for the third and *)
(* fourth, 600 s from the fifth on.  No attempt is made before the         *)
(* deadline in force has passed; that deadline is the one set by the       *)
(* previous attempt unless a reset of the connection replaced it, and it   *)
(* is earlier than the previous attempt's only when the counter was        *)
(* cleared in between.                                                     *)
(***************************************************************************)
C12_Backoff ==
    b_attempt.n >= 1 =>
        /\ b_attempt.n <= 2 => b_attempt.extra = 10
        /\ b_attempt.n \in {3, 4} => b_attempt.extra = 60
        /\ b_attempt.n >= 5 => b_attempt.extra = 600
        /\ b_attempt.deadline = b_attempt.at + b_attempt.extra
        /\ b_attempt.at > b_attempt.cooldown_before
        /\ (b_attempt.prev_n >= 1 /\ b_attempt.at <= b_attempt.prev_deadline)
                => b_attempt.cleared /\ b_attempt.after_success /\ b_attempt.n = 1

\* the fifth attempt in a row, made after the fourth one's deadline
C12_Witness ==
    /\ b_attempt.n = 5
    /\ b_attempt.prev_n = 4
    /\ b_attempt.extra = 600
    /\ b_attempt.at > b_attempt.prev_deadline
    /\ b_cooldown = b_attempt.at + 600

(***************************************************************************)
(* C13 as stated: a successful connection resets the failure counter to    *)
(* zero, so the next connect attempt after a success is given the short    *)
(* tier whatever the number of failures that preceded the success.         *)
(***************************************************************************)
C13_Original ==
    (b_attempt.n >= 1 /\ b_attempt.after_success)
        => b_attempt.n = 1 /\ b_attempt.extra = COOLDOWN_SHORT

(***************************************************************************)
(* C13 amended: a connection that the supervisor still sees up more than   *)
(* 300 s after the last connect attempt resets the failure counter to      *)
(* zero, and the next attempt is then given the short tier whatever the    *)
(* number of failures before; a connection lost earlier leaves the counter *)
(* alone, and the next attempt continues the count.                        *)
(***************************************************************************)
C13_SuccessClears ==
    /\ (b_connected /\ b_cleared) => b_failures = 0
    /\ b_attempt.n >= 1 =>
        /\ (b_attempt.after_success /\ b_attempt.cleared)
                => b_attempt.n = 1 /\ b_attempt.extra = COOLDOWN_SHORT
        /\ ~b_attempt.cleared => b_attempt.n = b_attempt.prev_n + 1

\* four attempts, a connection that lasted, and the next attempt is a first one
C13_Witness ==
    /\ b_attempt.after_success
    /\ b_attempt.cleared
    /\ b_attempt.prev_n = 4
    /\ b_attempt.n = 1
    /\ b_attempt.extra = 10

(***************************************************************************)
(* The supervisor (runner.py) and its worker processes.  The supervisor    *)
(* is followed call by call: create_worker, Worker.full_stop and           *)
(* stop_workers, each split at the points where it waits for a child       *)
(* (startup_event.wait, join, the sleep of Worker.terminate).  The child   *)
(* processes run on their own: they become ready, notice a shutdown flag,  *)
(* crash, or handle a SIGTERM that was sent to them (signals.py).          *)
(***************************************************************************)
NUM_TRIES == 3
MAX_TERMINATE_CALLED == 3

MaxCreates == 2         \* create_worker calls followed
MaxFullStops == 1       \* Worker.full_stop calls followed

\* Process.is_alive()
Alive(w) == r_proc[w] \in {"starting", "running"}

\* Process.exitcode is set and is not 0
ExitNonzero(w) == r_proc[w] \in {"exit1", "killed"}

\* the names of a table
Names(table) == {table[i] : i \in 1..Len(table)}

\* dict[name] = worker on a dict kept in insertion order
DictPut(table, name) == IF name \in Names(table) THEN table ELSE Append(table, name)

\* create_worker: self.workers[name] = worker is reached only when Worker()
\* returned; the RuntimeError of Worker.__init__ leaves before it
create_worker_table_mut_always_added(table, name, raised) == DictPut(table, name)
create_worker_table(table, name, raised) ==
    IF raised THEN table ELSE DictPut(table, name)

\* Process.join(timeout) returns when the process ended or the timeout is over
JoinReturns_mut_no_timeout(alive) == ~alive
JoinReturns(alive) == TRUE

\* the while condition of Worker.terminate
TerminateLoops(tries, alive) == tries > 0 /\ alive

\* stop_workers: still_running[worker.name] = worker
still_running_put_mut_dropped(still, name) == still
still_running_put(still, name) == DictPut(still, name)

\* stop_worker: what a worker that is not alive adds to num_terminated
ExitedCount(w) == IF ExitNonzero(w) THEN 2 ELSE 0

\* the value of the return statement of stop_workers
stop_workers_return(num_terminated, num_failed) == <<num_failed, num_terminated>>

InitRunner == IdleRunner

\* ---- the supervisor ----

\* the term_handler of the worker class created under a name: ServerWorker
\* is an InterruptableWorker, the looped workers keep BaseWorker's handler
term_handler(w) == IF w = "sxm" THEN "interrupt" ELSE "default"

\* create_worker(name): the process is started, the supervisor waits
CreateWorker(w) ==
    /\ r_sup.pc = "idle"
    /\ r_sup.creates < MaxCreates
    /\ r_proc[w] = "none"
    /\ r_proc' = [r_proc EXCEPT ![w] = "starting"]
    /\ r_handler' = [r_handler EXCEPT ![w] = term_handler(w)]
    /\ r_sup' = [r_sup EXCEPT !.pc = "create_wait", !.cur = w, !.creates = @ + 1]
    /\ r_hist' = [r_hist EXCEPT !.table_before = r_workers, !.create_alive = FALSE,
                                !.create_sigs = 0]
    /\ UNCHANGED <<r_workers, r_started, r_local, r_shutdown, r_pending,
                   r_termcalled, r_sigs>>

\* startup_event.wait returned True: the worker is entered in the table
CreateReady ==
    /\ r_sup.pc = "create_wait"
    /\ r_started[r_sup.cur]
    /\ r_workers' = create_worker_table(r_workers, r_sup.cur, FALSE)
    /\ r_sup' = [r_sup EXCEPT !.pc = "idle", !.cur = "none"]
    /\ UNCHANGED <<r_proc, r_started, r_local, r_shutdown, r_pending,
                   r_termcalled, r_handler, r_sigs, r_hist>>

\* startup_event.wait timed out: Worker.__init__ calls self.terminate()
CreateTimeout ==
    /\ r_sup.pc = "create_wait"
    /\ ~r_started[r_sup.cur]
    /\ r_sup' = [r_sup EXCEPT !.pc = "term", !.ctx = "create", !.tries = NUM_TRIES]
    /\ r_sigs' = [r_sigs EXCEPT ![r_sup.cur] = 0]
    /\ r_hist' = [r_hist EXCEPT !.create_alive = Alive(r_sup.cur)]
    /\ UNCHANGED <<r_workers, r_proc, r_started, r_local, r_shutdown, r_pending,
                   r_termcalled, r_handler>>

\* Worker.full_stop(): the local flag is set, then join(wait_time)
FullStopBegin(w) ==
    /\ r_sup.pc = "idle"
    /\ r_sup.fullstops < MaxFullStops
    /\ w \in Names(r_workers)
    /\ r_local' = [r_local EXCEPT ![w] = TRUE]
    /\ r_sup' = [r_sup EXCEPT !.pc = "fs_join", !.cur = w, !.fullstops = @ + 1]
    /\ r_hist' = [r_hist EXCEPT !.fullstopped = @ \cup {w}]
    /\ UNCHANGED <<r_workers, r_proc, r_started, r_shutdown, r_pending,
                   r_termcalled, r_handler, r_sigs>>

\* full_stop after the join: terminate() if the process is still alive
FullStopJoined ==
    /\ r_sup.pc = "fs_join"
    /\ JoinReturns(Alive(r_sup.cur))
    /\ IF Alive(r_sup.cur)
       THEN /\ r_sup' = [r_sup EXCEPT !.pc = "term", !.ctx = "fs", !.tries = NUM_TRIES]
            /\ r_sigs' = [r_sigs EXCEPT ![r_sup.cur] = 0]
       ELSE /\ r_sup' = [r_sup EXCEPT !.pc = "idle", !.cur = "none"]
            /\ UNCHANGED r_sigs
    /\ UNCHANGED <<r_workers, r_proc, r_started, r_local, r_shutdown, r_pending,
                   r_termcalled, r_handler, r_hist>>

\* one round of the loop of Worker.terminate: process.terminate(), sleep
TermSend ==
    /\ r_sup.pc = "term"
    /\ TerminateLoops(r_sup.tries, Alive(r_sup.cur))
    /\ r_pending' = [r_pending EXCEPT ![r_sup.cur] = r_sup.ctx]
    /\ r_sigs' = [r_sigs EXCEPT ![r_sup.cur] = @ + 1]
    /\ r_sup' = [r_sup EXCEPT !.tries = @ - 1]
    /\ r_hist' = [r_hist EXCEPT
           !.create_sigs = IF r_sup.ctx = "create" THEN @ + 1 ELSE @,
           !.signalled = IF r_sup.ctx = "stop" THEN @ \cup {r_sup.cur} ELSE @]
    /\ UNCHANGED <<r_workers, r_proc, r_started, r_local, r_shutdown,
                   r_termcalled, r_handler>>

\* Worker.terminate leaves its loop and returns to its caller:
\* Worker.__init__ raises, full_stop returns, stop_workers counts
TermEnd ==
    /\ r_sup.pc = "term"
    /\ ~TerminateLoops(r_sup.tries, Alive(r_sup.cur))
    /\ CASE r_sup.ctx = "create" ->
              /\ r_workers' = create_worker_table(r_workers, r_sup.cur, TRUE)
              /\ r_sup' = [r_sup EXCEPT !.pc = "raised", !.ctx = "none", !.raised = TRUE]
              /\ UNCHANGED r_hist
         [] r_sup.ctx = "fs" ->
              /\ r_sup' = [r_sup EXCEPT !.pc = "idle", !.ctx = "none", !.cur = "none"]
              /\ UNCHANGED <<r_workers, r_hist>>
         [] OTHER ->
              /\ IF Alive(r_sup.cur)
                 THEN /\ r_sup' = [r_sup EXCEPT !.pc = "pop", !.ctx = "none",
                                       !.still = still_running_put(@, r_sup.cur)]
                      /\ UNCHANGED r_hist
                 ELSE /\ r_sup' = [r_sup EXCEPT !.pc = "pop", !.ctx = "none",
                                       !.num_terminated = @ + 1]
                      /\ r_hist' = [r_hist EXCEPT !.killed =
                             IF r_sigs[r_sup.cur] > 0 THEN @ + 1 ELSE @]
              /\ UNCHANGED r_workers
    /\ UNCHANGED <<r_proc, r_started, r_local, r_shutdown, r_pending,
                   r_termcalled, r_handler, r_sigs>>

\* stop_workers: the global flag is set, the counters start at 0
StopBegin ==
    /\ r_sup.pc \in {"idle", "raised"}
    /\ r_shutdown' = TRUE
    /\ r_sup' = [r_sup EXCEPT !.pc = "join", !.cur = "none", !.joinleft = r_workers,
                     !.still = <<>>, !.num_terminated = 0, !.num_failed = 0]
    /\ r_hist' = [r_hist EXCEPT !.stop_set = Names(r_workers), !.joined = {},
                      !.signalled = {}, !.killed = 0,
                      !.flag_by = IF r_shutdown THEN @ ELSE "stop_workers"]
    /\ UNCHANGED <<r_workers, r_proc, r_started, r_local, r_pending,
                   r_termcalled, r_handler, r_sigs>>

\* stop_workers: worker.process.join(join_secs) of the next worker returns
StopJoin ==
    /\ r_sup.pc = "join"
    /\ r_sup.joinleft # <<>>
    /\ JoinReturns(Alive(Head(r_sup.joinleft)))
    /\ r_sup' = [r_sup EXCEPT !.joinleft = Tail(@)]
    /\ r_hist' = [r_hist EXCEPT !.joined = @ \cup {Head(r_sup.joinleft)}]
    /\ UNCHANGED <<r_workers, r_proc, r_started, r_local, r_shutdown, r_pending,
                   r_termcalled, r_handler, r_sigs>>

\* stop_workers: the for loop of joins is over
StopJoinDone ==
    /\ r_sup.pc = "join"
    /\ r_sup.joinleft = <<>>
    /\ r_sup' = [r_sup EXCEPT !.pc = "pop"]
    /\ r_hist' = [r_hist EXCEPT !.alive_at_join_end =
                      {w \in Names(r_workers) : Alive(w)}]
    /\ UNCHANGED <<r_workers, r_proc, r_started, r_local, r_shutdown, r_pending,
                   r_termcalled, r_handler, r_sigs>>

\* stop_workers: the first key is popped and handed to stop_worker
StopPop ==
    /\ r_sup.pc = "pop"
    /\ r_workers # <<>>
    /\ r_workers' = Tail(r_workers)
    /\ LET w == Head(r_workers) IN
       IF Alive(w)
       THEN /\ r_sup' = [r_sup EXCEPT !.pc = "term", !.ctx = "stop", !.cur = w,
                             !.tries = NUM_TRIES]
            /\ r_sigs' = [r_sigs EXCEPT ![w] = 0]
       ELSE /\ r_sup' = [r_sup EXCEPT !.cur = w,
                             !.num_terminated = @ + ExitedCount(w)]
            /\ UNCHANGED r_sigs
    /\ UNCHANGED <<r_proc, r_started, r_local, r_shutdown, r_pending,
                   r_termcalled, r_handler, r_hist>>

\* stop_workers: self.workers = still_running; return
StopReturn ==
    /\ r_sup.pc = "pop"
    /\ r_workers = <<>>
    /\ r_workers' = r_sup.still
    /\ r_sup' = [r_sup EXCEPT !.pc = "returned", !.cur = "none",
                     !.ret = stop_workers_return(r_sup.num_terminated, r_sup.num_failed)]
    /\ UNCHANGED <<r_proc, r_started, r_local, r_shutdown, r_pending,
                   r_termcalled, r_handler, r_sigs, r_hist>>

\* ---- the child processes ----

\* BaseWorker.start: init_signals(), startup_event.set(), run()
ProcReady(w) ==
    /\ r_proc[w] = "starting"
    /\ r_proc' = [r_proc EXCEPT ![w] = "running"]
    /\ r_started' = [r_started EXCEPT ![w] = TRUE]
    /\ UNCHANGED <<r_sup, r_workers, r_local, r_shutdown, r_pending,
                   r_termcalled, r_handler, r_sigs, r_hist>>

\* the worker's loop sees the global flag or its own local flag and returns
ProcStops(w) ==
    /\ r_proc[w] = "running"
    /\ r_shutdown \/ r_local[w]
    /\ r_proc' = [r_proc EXCEPT ![w] = "exit0"]
    /\ UNCHANGED <<r_sup, r_workers, r_started, r_local, r_shutdown, r_pending,
                   r_termcalled, r_handler, r_sigs, r_hist>>

\* the worker sets its own local flag (a looped worker giving up)
ProcSelfStop(w) ==
    /\ r_proc[w] = "running"
    /\ ~r_local[w]
    /\ r_local' = [r_local EXCEPT ![w] = TRUE]
    /\ UNCHANGED <<r_sup, r_workers, r_proc, r_started, r_shutdown, r_pending,
                   r_termcalled, r_handler, r_sigs, r_hist>>

\* the worker dies of an exception of its own
ProcCrashes(w) ==
    /\ Alive(w)
    /\ r_proc' = [r_proc EXCEPT ![w] = "exit1"]
    /\ UNCHANGED <<r_sup, r_workers, r_started, r_local, r_shutdown, r_pending,
                   r_termcalled, r_handler, r_sigs, r_hist>>

\* the handler a SIGTERM meets in the child: the class's term_handler once
\* init_signals ran; before that (process still starting) the handler
\* inherited from the supervisor (default_signal_handler, start method fork)
\* or none at all (start method spawn: the signal kills the process)
HandlersOf(w) ==
    IF r_proc[w] = "starting" THEN {"default", "none"} ELSE {r_handler[w]}

\* a pending SIGTERM is handled by the child.  default_signal_handler counts
\* the call, sets the shutdown event it was given, and raises on the
\* MAX_TERMINATE_CALLED-th call; interupt_signal_handler raises at once
ProcHandlesSignal(w) ==
    /\ Alive(w)
    /\ r_pending[w] # "none"
    /\ r_pending' = [r_pending EXCEPT ![w] = "none"]
    /\ \E h \in HandlersOf(w) :
          IF h = "default"
          THEN /\ r_termcalled' = [r_termcalled EXCEPT ![w] = @ + 1]
               /\ r_shutdown' = TRUE
               /\ r_hist' = [r_hist EXCEPT !.flag_by =
                      IF r_shutdown THEN @ ELSE r_pending[w]]
               /\ r_proc' = [r_proc EXCEPT ![w] =
                      IF r_termcalled[w] + 1 >= MAX_TERMINATE_CALLED
                      THEN "killed" ELSE @]
          ELSE /\ r_proc' = [r_proc EXCEPT ![w] = "killed"]
               /\ UNCHANGED <<r_termcalled, r_shutdown, r_hist>>
    /\ UNCHANGED <<r_sup, r_workers, r_started, r_local, r_handler, r_sigs>>

\* the steps of stop_workers and of the Worker.terminate calls
StopStep ==
    \/ StopJoin
    \/ StopJoinDone
    \/ StopPop
    \/ StopReturn
    \/ TermSend
    \/ TermEnd

NextRunner ==
    \/ (\E w \in WorkerNames : CreateWorker(w)) /\ UNCHANGED notr
    \/ CreateReady /\ UNCHANGED notr
    \/ CreateTimeout /\ UNCHANGED notr
    \/ (\E w \in WorkerNames : FullStopBegin(w)) /\ UNCHANGED notr
    \/ FullStopJoined /\ UNCHANGED notr
    \/ TermSend /\ UNCHANGED notr
    \/ TermEnd /\ UNCHANGED notr
    \/ StopBegin /\ UNCHANGED notr
    \/ StopJoin /\ UNCHANGED notr
    \/ StopJoinDone /\ UNCHANGED notr
    \/ StopPop /\ UNCHANGED notr
    \/ StopReturn /\ UNCHANGED notr
    \/ (\E w \in WorkerNames : ProcReady(w)) /\ UNCHANGED notr
    \/ (\E w \in WorkerNames : ProcStops(w)) /\ UNCHANGED notr
    \/ (\E w \in WorkerNames : ProcSelfStop(w)) /\ UNCHANGED notr
    \/ (\E w \in WorkerNames : ProcCrashes(w)) /\ UNCHANGED notr
    \/ (\E w \in WorkerNames : ProcHandlesSignal(w)) /\ UNCHANGED notr

InitRunnerSpec ==
    /\ InitRunner /\ IdleQueue /\ IdleWorker /\ IdleProc /\ IdleArch /\ IdleBackoff
    /\ IdleEvented /\ IdleRelay /\ IdleSup /\ IdleStatus /\ IdleReplica /\ IdleFilter /\ IdleTimer

SpecRunner == InitRunnerSpec /\ [][NextRunner]_vars

\* the supervisor process keeps running its own code; nothing is assumed
\* of the children
SpecRunnerFair == SpecRunner /\ WF_vars(StopStep /\ UNCHANGED notr)

\* the step in which Worker.__init__ raises its RuntimeError
CreateRaises == r_sup.pc = "term" /\ r_sup.ctx = "create" /\ r_sup'.pc = "raised"

(***************************************************************************)
(* C14 as stated: when the worker did not set its readiness flag within    *)
(* the startup timeout, create_worker raises, the child process was sent   *)
(* terminate signals, and the worker table is the table of before the      *)
(* call, without the new worker.                                           *)
(***************************************************************************)
C14_Original ==
    [][CreateRaises =>
          /\ r_sup'.raised
          /\ r_workers' = r_hist.table_before
          /\ r_sup.cur \notin Names(r_workers')
          /\ r_hist.create_sigs >= 1]_vars

(***************************************************************************)
(* C14: when the worker did not set its readiness flag within the startup  *)
(* timeout, create_worker raises and the worker table is the table of      *)
(* before the call, without the new worker; the child was sent at most     *)
(* NUM_TRIES terminate signals, each while it was alive: a child that is   *)
(* still alive when the error is raised was sent all NUM_TRIES, a child    *)
(* that had already ended was sent none.                                   *)
(***************************************************************************)
C14_StartupTimeout ==
    [][CreateRaises =>
          /\ r_sup'.raised
          /\ r_workers' = r_hist.table_before
          /\ r_sup.cur \notin Names(r_workers')
          /\ r_hist.create_sigs <= NUM_TRIES
          /\ Alive(r_sup.cur) => r_hist.create_sigs = NUM_TRIES
          /\ ~r_hist.create_alive => r_hist.create_sigs = 0]_vars

\* a second worker timed out at startup, was signalled and the error raised
C14_Witness ==
    /\ r_sup.pc = "raised"
    /\ r_sup.raised
    /\ Len(r_hist.table_before) = 1
    /\ r_workers = r_hist.table_before
    /\ r_hist.create_alive
    /\ r_hist.create_sigs >= 1

(***************************************************************************)
(* C15: stop_workers returns for every set of workers, whatever the        *)
(* workers do (they may never notice the shutdown flag and never handle a  *)
(* terminate signal): once it has set the flag it reaches its return, and  *)
(* no Worker.terminate call sends a worker more than NUM_TRIES signals.    *)
(***************************************************************************)
C15_StopReturns ==
    /\ [](\A w \in WorkerNames : r_sigs[w] <= NUM_TRIES)
    /\ (r_sup.pc = "join") ~> (r_sup.pc = "returned")

\* stop_workers returned although a worker that was sent NUM_TRIES signals
\* handled none of them and is still alive
C15_Witness ==
    /\ r_sup.pc = "returned"
    /\ \E w \in Names(r_workers) :
          /\ Alive(w)
          /\ r_sigs[w] = NUM_TRIES
          /\ r_termcalled[w] = 0
          /\ r_pending[w] = "stop"

\* the step in which stop_workers returns
StopReturns == r_sup.pc = "pop" /\ r_sup'.pc = "returned"

(***************************************************************************)
(* C16: stop_workers returns the pair (terminated_count, failed_count):    *)
(* first the number of workers that had to be stopped with a terminate     *)
(* signal, second the number of workers still alive after all terminate    *)
(* attempts.                                                               *)
(***************************************************************************)
C16_ReturnPair ==
    [][StopReturns => r_sup'.ret = <<r_hist.killed, Len(r_sup.still)>>]_vars

\* stop_workers returned after one worker was stopped by a terminate
\* signal and another was left alive
C16_Witness ==
    /\ r_sup.pc = "returned"
    /\ r_hist.killed = 1
    /\ Len(r_workers) = 1

\* a step of stop_workers that sends a terminate signal
StopSends == r_sup.pc = "term" /\ r_sup.ctx = "stop" /\ r_sigs'[r_sup.cur] > r_sigs[r_sup.cur]

\* a step of stop_workers in which a join returns
StopJoins == r_sup.pc = "join" /\ r_sup'.joinleft # r_sup.joinleft

\* the workers in the order of shutdown: flag, joins, signals
ShutdownOrder ==
    /\ StopJoins => r_shutdown
    /\ StopSends =>
          /\ r_hist.joined = r_hist.stop_set
          /\ r_sup.cur \in r_hist.alive_at_join_end
          /\ Alive(r_sup.cur)

(***************************************************************************)
(* C17 as stated: during supervisor shutdown the global flag is set before *)
(* any join, every worker was joined before any terminate signal is sent,  *)
(* a signal is sent only to a worker alive after the join phase, and when  *)
(* stop_workers returns the worker table holds exactly the workers of the  *)
(* stopped table that are alive.                                           *)
(***************************************************************************)
C17_Original ==
    [][/\ ShutdownOrder
       /\ StopReturns =>
             Names(r_workers') = {w \in r_hist.stop_set : Alive(w)}]_vars

(***************************************************************************)
(* C17: during supervisor shutdown the global flag is set before any join, *)
(* every worker was joined before any terminate signal is sent, a signal   *)
(* is sent only to a worker alive after the join phase, and when           *)
(* stop_workers returns the worker table holds exactly the workers that    *)
(* were found alive at the end of their terminate attempts (r_sup.still);  *)
(* every worker of the stopped table that is alive is among them, and each *)
(* of them was sent NUM_TRIES signals.                                     *)
(***************************************************************************)
C17_ShutdownOrder ==
    [][/\ ShutdownOrder
       /\ StopReturns =>
             /\ r_workers' = r_sup.still
             /\ {w \in r_hist.stop_set : Alive(w)} \subseteq Names(r_workers')
             /\ \A w \in Names(r_workers') :
                   w \in r_hist.signalled /\ r_sigs[w] = NUM_TRIES]_vars

\* stop_workers returned after joining two workers; one was signalled and
\* killed, one was left alive in the table
C17_Witness ==
    /\ r_sup.pc = "returned"
    /\ r_hist.joined = {"hls", "sxm"}
    /\ r_hist.signalled = {"hls", "sxm"}
    /\ r_workers = <<"hls">>
    /\ Alive("hls")
    /\ r_proc["sxm"] = "killed"

\* a step that belongs to stopping one worker through its local flag: the
\* supervisor is inside Worker.full_stop, a local flag is set, or a child
\* handles a signal that full_stop sent
LocalStopStep ==
    \/ r_sup.pc = "fs_join"
    \/ r_sup.pc = "term" /\ r_sup.ctx = "fs"
    \/ \E w \in WorkerNames : r_local'[w] # r_local[w]
    \/ \E w \in WorkerNames : r_pending[w] = "fs" /\ r_pending'[w] = "none"

(***************************************************************************)
(* C18: stopping one worker through its local shutdown flag (full_stop,    *)
(* or the worker setting its own flag) leaves the global shutdown flag as  *)
(* it was and sets no other worker's local flag, and no sibling stops      *)
(* running because of it: a running worker returns from its loop only if   *)
(* its own local flag is set or the global flag was set by stop_workers.   *)
(***************************************************************************)
C18_LocalStopIsLocal ==
    [][/\ LocalStopStep =>
             /\ r_shutdown' = r_shutdown
             /\ \A w, v \in WorkerNames :
                   (r_local'[w] # r_local[w] /\ v # w) => r_local'[v] = r_local[v]
       /\ \A v \in WorkerNames :
             (r_proc[v] = "running" /\ r_proc'[v] = "exit0")
                 => (r_local[v] \/ r_hist.flag_by # "fs")]_vars

\* full_stop of one worker ended in a terminate signal whose handler set the
\* global flag, and the sibling, never asked to stop, returned from its loop
C18_Witness ==
    /\ r_hist.flag_by = "fs"
    /\ r_shutdown
    /\ r_sup.pc = "idle"
    /\ \E v \in WorkerNames :
          /\ v \notin r_hist.fullstopped
          /\ ~r_local[v]
          /\ r_proc[v] = "exit0"

(***************************************************************************)
(* EventedWorker.run with the clock it reads: one CLIPlayerWorker (a       *)
(* ComboLoopedWorker, subscribed to both queues), its iterations of        *)
(* polling and loop body, and the supervisor relaying events to it.        *)
(***************************************************************************)
LOOP_DELAY == 1

MaxEvClock == 12        \* time.time() the worker is followed to
MaxEvLoops == 2         \* runs of the loop body followed
MaxEvSent == 3          \* events relayed to the worker

\* the ids of the messages of a queue, in queue order
Ids(queue) == [i \in 1..Len(queue) |-> queue[i].id]

\* the elements of a sequence
Range(seq) == {seq[i] : i \in 1..Len(seq)}

\* the if in front of self.loop(): time.time() > _last_loop + _delay
LoopDue_mut_not_strict(now, last_loop, delay) == now >= last_loop + delay
LoopDue(now, last_loop, delay) == now > last_loop + delay

\* the seconds a blocking call (safe_get, loop) may take
CallSeconds == {0, 1}

InitEvented == IdleEvented

\* the while test of EventedWorker.run; an iteration begins
EvWhile ==
    /\ e_pc = "while"
    /\ IF ~e_shutdown /\ ~e_w.local
       THEN /\ e_pc' = "events"
            /\ e_iter' = [start_hls |-> Ids(e_hls_queue), start_sxm |-> Ids(e_sxm_queue),
                          handled |-> {}]
       ELSE /\ e_pc' = "cleanup"
            /\ UNCHANGED e_iter
    /\ UNCHANGED <<e_hls_queue, e_sxm_queue, e_w, e_shutdown, e_clock, e_last_loop,
                   e_published, e_last, e_sent>>

\* the for loop over _event_queues: one safe_get per queue, the event that
\* came back (if any) goes to _handle_event
EvEvents ==
    /\ e_pc = "events"
    /\ LET g1 == safe_get(e_hls_queue)
           g2 == safe_get(e_sxm_queue)
           s0 == e_w
           s1 == IF g1.item = NoMsg THEN s0
                 ELSE handle_event("cli", g1.item, s0.state, s0.local, s0.process)
           s2 == IF g2.item = NoMsg THEN s1
                 ELSE handle_event("cli", g2.item, s1.state, s1.local, s1.process)
       IN /\ e_hls_queue' = g1.items
          /\ e_sxm_queue' = g2.items
          /\ e_w' = s2
          /\ e_iter' = [e_iter EXCEPT !.handled =
                 {g.id : g \in {h \in {g1.item, g2.item} : h # NoMsg}}]
    /\ \E d \in CallSeconds :
          /\ e_clock + d <= MaxEvClock
          /\ e_clock' = e_clock + d
    /\ e_pc' = "tick"
    /\ UNCHANGED <<e_shutdown, e_last_loop, e_published, e_last, e_sent>>

\* the loop body is not due
EvTickSkip ==
    /\ e_pc = "tick"
    /\ ~LoopDue(e_clock, e_last_loop, LOOP_DELAY)
    /\ e_pc' = "while"
    /\ UNCHANGED <<e_hls_queue, e_sxm_queue, e_w, e_shutdown, e_clock, e_last_loop,
                   e_published, e_iter, e_last, e_sent>>

\* the loop body is due: self.loop(), then _last_loop = time.time()
EvTickLoop ==
    /\ e_pc = "tick"
    /\ LoopDue(e_clock, e_last_loop, LOOP_DELAY)
    /\ e_last.n < MaxEvLoops
    /\ \E cooled \in BOOLEAN :
          LET p == cli_loop(e_w.state, e_w.process, cooled)
          IN /\ e_w' = [state |-> p.state, local |-> e_w.local, process |-> p.process]
             /\ e_published' = e_published \o p.published
    /\ \E d \in CallSeconds :
          /\ e_clock + d <= MaxEvClock
          /\ e_clock' = e_clock + d
          /\ e_last_loop' = e_clock + d
    /\ e_last' = [n |-> e_last.n + 1, at |-> e_clock, prev_end |-> e_last_loop,
                  pending |-> Len(e_iter.start_hls) + Len(e_iter.start_sxm),
                  handled |-> Cardinality(e_iter.handled)]
    /\ e_pc' = "while"
    /\ UNCHANGED <<e_hls_queue, e_sxm_queue, e_shutdown, e_iter, e_sent>>

\* run() ends with self.cleanup()
EvCleanup ==
    /\ e_pc = "cleanup"
    /\ LET c == cleanup("cli", e_w.process, e_w.state, e_published)
       IN /\ e_w' = [state |-> c.state, local |-> e_w.local, process |-> c.process]
          /\ e_published' = c.published
    /\ e_pc' = "stopped"
    /\ UNCHANGED <<e_hls_queue, e_sxm_queue, e_shutdown, e_clock, e_last_loop,
                   e_iter, e_last, e_sent>>

\* handlers.hls_event: the supervisor relays an event to the stream inbox
EvHlsEvent ==
    /\ e_sent < MaxEvSent
    /\ \E e \in HlsQueueEvents(e_sent + 1) :
          e_hls_queue' = safe_put(e_hls_queue, 0, e).items
    /\ e_sent' = e_sent + 1
    /\ UNCHANGED <<e_pc, e_sxm_queue, e_w, e_shutdown, e_clock, e_last_loop,
                   e_published, e_iter, e_last>>

\* handlers.sxm_status_event: the supervisor relays SXM_STATUS
EvSxmEvent ==
    /\ e_sent < MaxEvSent
    /\ \E e \in SxmQueueEvents(e_sent + 1) :
          e_sxm_queue' = safe_put(e_sxm_queue, 0, e).items
    /\ e_sent' = e_sent + 1
    /\ UNCHANGED <<e_pc, e_hls_queue, e_w, e_shutdown, e_clock, e_last_loop,
                   e_published, e_iter, e_last>>

\* the supervisor sets the global flag
EvSetShutdown ==
    /\ ~e_shutdown
    /\ e_shutdown' = TRUE
    /\ UNCHANGED <<e_pc, e_hls_queue, e_sxm_queue, e_w, e_clock, e_last_loop,
                   e_published, e_iter, e_last, e_sent>>

NextEvented ==
    \/ EvWhile /\ UNCHANGED note
    \/ EvEvents /\ UNCHANGED note
    \/ EvTickSkip /\ UNCHANGED note
    \/ EvTickLoop /\ UNCHANGED note
    \/ EvCleanup /\ UNCHANGED note
    \/ EvHlsEvent /\ UNCHANGED note
    \/ EvSxmEvent /\ UNCHANGED note
    \/ EvSetShutdown /\ UNCHANGED note

InitEventedSpec ==
    /\ InitEvented /\ IdleQueue /\ IdleWorker /\ IdleProc /\ IdleArch /\ IdleBackoff
    /\ IdleRunner /\ IdleRelay /\ IdleSup /\ IdleStatus /\ IdleReplica /\ IdleFilter /\ IdleTimer

SpecEvented == InitEventedSpec /\ [][NextEvented]_vars

\* the step in which the loop body runs
LoopRuns == e_last'.n = e_last.n + 1

\* more than the delay passed between the end of the last run and this one
DelayElapsed == e_last.n >= 1 => e_last'.at - e_last'.prev_end > LOOP_DELAY

(***************************************************************************)
(* C19 as stated: when the loop body runs, every event that was pending in *)
(* a subscribed queue when the iteration began has been handled, and more  *)
(* than the delay has passed since the last run of the loop body.          *)
(***************************************************************************)
C19_Original ==
    [][LoopRuns =>
          /\ Range(e_iter.start_hls) \cup Range(e_iter.start_sxm) \subseteq e_iter.handled
          /\ DelayElapsed]_vars

(***************************************************************************)
(* C19: when the loop body runs, the event that was at the head of each    *)
(* subscribed queue when the iteration began has been handled, and no      *)
(* event behind a head has (it stays queued for a later iteration); more   *)
(* than the delay has passed since the last run of the loop body.          *)
(***************************************************************************)
C19_EventedIteration ==
    [][LoopRuns =>
          /\ \A q \in {e_iter.start_hls, e_iter.start_sxm} :
                /\ q # <<>> => Head(q) \in e_iter.handled
                /\ \A i \in 2..Len(q) : q[i] \notin e_iter.handled
                /\ \A i \in 2..Len(q) :
                      q[i] \in Range(Ids(e_hls_queue')) \cup Range(Ids(e_sxm_queue'))
          /\ DelayElapsed]_vars

\* the loop body ran a second time, in an iteration that began with three
\* events in the two queues and handled the two at their heads
C19_Witness ==
    /\ e_last.n = 2
    /\ e_last.pending = 3
    /\ e_last.handled = 2
    /\ e_last.at - e_last.prev_end > LOOP_DELAY

(***************************************************************************)
(* The relay worker (HLSWorker) tick by tick, with the clock, the upstream *)
(* status it was told, its decoder and the capture file as they change     *)
(* between ticks.                                                          *)
(***************************************************************************)
STREAM_FILE_WAIT == 5

MaxRelayClock == 7      \* seconds after setup() the relay is followed for
MaxRelayTicks == 2      \* ticks followed

\* the third stop condition of HLSWorker.loop
stream_file_missing_mut_at_wait(now, start, has_file, exists) ==
    now - start >= STREAM_FILE_WAIT /\ has_file /\ ~exists
stream_file_missing(now, start, has_file, exists) ==
    now - start > STREAM_FILE_WAIT /\ has_file /\ ~exists

\* the PlayerState of the relay: only sxm_running is read by its tick
RelayState(running) ==
    [sxm_running |-> running, stream_channel |-> "None", stream_url |-> "None"]

\* HLSWorker.__init__ (decoder started, an old capture file removed) and
\* setup() (_start = time.time())
InitRelay ==
    /\ h_pc = "loop"
    /\ h_clock = 0
    /\ h_start = 0
    /\ h_running \in BOOLEAN
    /\ h_process = "alive"
    /\ h_has_file \in BOOLEAN
    /\ h_exists = FALSE
    /\ h_local = FALSE
    /\ h_shutdown = FALSE
    /\ h_published = <<"HLS_STREAM_STARTED">>
    /\ h_last = NoRelayTick
    /\ h_termcalled = 0
    /\ h_sig = NoSignal

\* a second passes
RelayTimePasses ==
    /\ h_pc = "loop"
    /\ h_clock < MaxRelayClock
    /\ h_clock' = h_clock + 1
    /\ UNCHANGED <<h_pc, h_start, h_running, h_process, h_has_file, h_exists,
                   h_local, h_shutdown, h_published, h_last,
                   h_termcalled, h_sig>>

\* _handle_event: an SXM_STATUS event changes _state.sxm_running
RelaySxmStatus ==
    /\ h_pc = "loop"
    /\ h_running' = ~h_running
    /\ UNCHANGED <<h_pc, h_clock, h_start, h_process, h_has_file, h_exists,
                   h_local, h_shutdown, h_published, h_last,
                   h_termcalled, h_sig>>

\* the decoder exits by itself
RelayDecoderDies ==
    /\ h_process = "alive"
    /\ h_process' = "dead"
    /\ UNCHANGED <<h_pc, h_clock, h_start, h_running, h_has_file, h_exists,
                   h_local, h_shutdown, h_published, h_last,
                   h_termcalled, h_sig>>

\* the decoder creates the capture file, or somebody removes it
RelayFileChanges ==
    /\ h_has_file
    /\ h_exists \/ h_process = "alive"
    /\ h_exists' = ~h_exists
    /\ UNCHANGED <<h_pc, h_clock, h_start, h_running, h_process, h_has_file,
                   h_local, h_shutdown, h_published, h_last,
                   h_termcalled, h_sig>>

\* the supervisor sets the global flag
RelaySetShutdown ==
    /\ ~h_shutdown
    /\ h_shutdown' = TRUE
    /\ UNCHANGED <<h_pc, h_clock, h_start, h_running, h_process, h_has_file,
                   h_exists, h_local, h_published, h_last,
                   h_termcalled, h_sig>>

\* HLSWorker.loop, called by run() while neither flag is set
RelayLoop ==
    /\ h_pc = "loop"
    /\ ~h_local /\ ~h_shutdown
    /\ h_last.n < MaxRelayTicks
    /\ \E lines \in BOOLEAN :
          LET r == hls_loop(RelayState(h_running), h_process,
                            stream_file_missing(h_clock, h_start, h_has_file, h_exists),
                            lines)
          IN /\ h_local' = (h_local \/ r.local)
             /\ h_published' = h_published \o r.published
             /\ h_last' = [n |-> h_last.n + 1, now |-> h_clock, running |-> h_running,
                           process |-> h_process, has_file |-> h_has_file,
                           exists |-> h_exists, lines |-> lines,
                           shutdown_before |-> h_shutdown]
    /\ UNCHANGED <<h_pc, h_clock, h_start, h_running, h_process, h_has_file,
                   h_exists, h_shutdown,
                   h_termcalled, h_sig>>

\* run() sees a flag and leaves its loop
RelayLeave ==
    /\ h_pc = "loop"
    /\ h_local \/ h_shutdown
    /\ h_pc' = "cleanup"
    /\ UNCHANGED <<h_clock, h_start, h_running, h_process, h_has_file, h_exists,
                   h_local, h_shutdown, h_published, h_last,
                   h_termcalled, h_sig>>

\* HLSWorker.cleanup: stop the decoder, push KILL_HLS_STREAM
RelayCleanup ==
    /\ h_pc = "cleanup"
    /\ LET c == cleanup("hls", h_process, RelayState(h_running), h_published)
       IN /\ h_process' = c.process
          /\ h_published' = c.published
    /\ h_pc' = "stopped"
    /\ UNCHANGED <<h_clock, h_start, h_running, h_has_file, h_exists, h_local,
                   h_shutdown, h_last,
                   h_termcalled, h_sig>>

\* the exception class init_signals binds to a signal number
ExceptionClass(signal_num) ==
    IF signal_num = "SIGINT" THEN "KeyboardInterrupt" ELSE "TerminateInterrupt"

\* default_signal_handler: count the call, set the shutdown event, raise
\* from the MAX_TERMINATE_CALLED-th call on
default_signal_handler_mut_fourth(terminate_called, exception_class) ==
    [terminate_called |-> terminate_called + 1, shutdown |-> TRUE,
     raised |-> IF terminate_called + 1 > MAX_TERMINATE_CALLED
                THEN exception_class ELSE "none"]
default_signal_handler(terminate_called, exception_class) ==
    [terminate_called |-> terminate_called + 1, shutdown |-> TRUE,
     raised |-> IF terminate_called + 1 >= MAX_TERMINATE_CALLED
                THEN exception_class ELSE "none"]

\* the relay process receives SIGINT or SIGTERM while it is in run(): the
\* handler runs in its main thread; an exception it raises is a
\* BaseException, which the except clause of run() does not catch, so the
\* process ends there
RelaySignal(signal_num) ==
    /\ h_pc \in {"loop", "cleanup"}
    /\ LET r == default_signal_handler(h_termcalled, ExceptionClass(signal_num))
       IN /\ h_termcalled' = r.terminate_called
          /\ h_shutdown' = r.shutdown
          /\ h_pc' = IF r.raised = "none" THEN h_pc ELSE "killed"
          /\ h_sig' = [int |-> h_sig.int + (IF signal_num = "SIGINT" THEN 1 ELSE 0),
                       term |-> h_sig.term + (IF signal_num = "SIGTERM" THEN 1 ELSE 0),
                       last |-> signal_num, raised |-> r.raised]
    /\ UNCHANGED <<h_clock, h_start, h_running, h_process, h_has_file, h_exists,
                   h_local, h_published, h_last>>

NextRelay ==
    \/ (\E signal_num \in {"SIGINT", "SIGTERM"} : RelaySignal(signal_num))
           /\ UNCHANGED noth
    \/ RelayTimePasses /\ UNCHANGED noth
    \/ RelaySxmStatus /\ UNCHANGED noth
    \/ RelayDecoderDies /\ UNCHANGED noth
    \/ RelayFileChanges /\ UNCHANGED noth
    \/ RelaySetShutdown /\ UNCHANGED noth
    \/ RelayLoop /\ UNCHANGED noth
    \/ RelayLeave /\ UNCHANGED noth
    \/ RelayCleanup /\ UNCHANGED noth

InitRelaySpec ==
    /\ InitRelay /\ IdleQueue /\ IdleWorker /\ IdleProc /\ IdleArch /\ IdleBackoff
    /\ IdleRunner /\ IdleEvented /\ IdleSup /\ IdleStatus /\ IdleReplica /\ IdleFilter /\ IdleTimer

SpecRelay == InitRelaySpec /\ [][NextRelay]_vars

\* the step that is a tick of the relay
RelayTicks == h_last'.n = h_last.n + 1

\* a stop condition of the claim matched on the tick that h_last describes
StopMatched(tick) ==
    \/ ~tick.running
    \/ tick.process # "alive"
    \/ tick.has_file /\ ~tick.exists /\ tick.now - h_start > STREAM_FILE_WAIT

(***************************************************************************)
(* C20: on each relay tick the local shutdown flag is set exactly when the *)
(* upstream client is reported unhealthy, or the decoder is not alive, or  *)
(* the capture file is expected and still missing more than 5 seconds      *)
(* after start; the tick leaves the global flag as it was, and it          *)
(* publishes nothing when a stop condition matched (otherwise at most the  *)
(* decoder's stderr lines).                                                *)
(***************************************************************************)
C20_RelayTick ==
    [][RelayTicks =>
          /\ h_local' = StopMatched(h_last')
          /\ h_shutdown' = h_shutdown
          /\ StopMatched(h_last') => h_published' = h_published
          /\ ~StopMatched(h_last') =>
                h_published' = IF h_last'.lines
                               THEN Append(h_published, "HLS_STDERROR_LINES")
                               ELSE h_published]_vars

\* a tick 6 s after start, upstream healthy, decoder alive and stderr lines
\* to read, stopped the relay because the expected capture file is missing
C20_Witness ==
    /\ h_last.n >= 1
    /\ h_last.now = STREAM_FILE_WAIT + 1
    /\ h_last.running
    /\ h_last.process = "alive"
    /\ h_last.has_file /\ ~h_last.exists
    /\ h_last.lines
    /\ h_local
    /\ ~h_shutdown
    /\ h_published = <<"HLS_STREAM_STARTED">>

\* the relay process has ended, by returning from run() or by an exception
\* a signal handler raised
RelayEnded == h_pc \in {"stopped", "killed"}

(***************************************************************************)
(* C21: in one relay lifetime the published events are ordered: one        *)
(* HLS_STREAM_STARTED first, then only HLS_STDERROR_LINES events (each     *)
(* published by a tick that read at least one line), then one              *)
(* KILL_HLS_STREAM last, published after the decoder has been stopped;     *)
(* when the lifetime has ended the KILL_HLS_STREAM is there.               *)
(***************************************************************************)
C21_PublishedOrder ==
    /\ Len(h_published) >= 1
    /\ Head(h_published) = "HLS_STREAM_STARTED"
    /\ \A i \in 2..Len(h_published) :
          \/ h_published[i] = "HLS_STDERROR_LINES"
          \/ i = Len(h_published) /\ h_published[i] = "KILL_HLS_STREAM"
    /\ h_published[Len(h_published)] = "KILL_HLS_STREAM" => h_process = "none"
    /\ RelayEnded => h_published[Len(h_published)] = "KILL_HLS_STREAM"

\* a relay that published its start and one batch of lines was ended by the
\* third signal: no KILL_HLS_STREAM follows and the decoder is still there
C21_Witness ==
    /\ h_pc = "killed"
    /\ h_published = <<"HLS_STREAM_STARTED", "HLS_STDERROR_LINES">>
    /\ h_process = "alive"

(***************************************************************************)
(* The supervisor's event handlers: cli.py event_loop and handlers.py.      *)
(* The supervisor pops one event from Runner.event_queue and runs the       *)
(* handler named after its type; the workers publish the events.  The       *)
(* cooldown bookkeeping of PlayerState is the subject of SpecBackoff and is *)
(* not repeated here.                                                       *)
(***************************************************************************)
MaxSupEvents == 6       \* events published to the supervisor in one behaviour
MaxSpawns == 1          \* spawn_sxm_worker calls followed

\* an event on Runner.event_queue
SupEvent(msg_src, msg_type, msg) == EventMessage(0, msg_src, msg_type, msg)

\* Process.is_alive() of the process a table entry refers to
ProcAlive(proc) == proc.cur \in {"alive", "told"}

\* processes of one worker class that are alive, registered or not
AliveCount(name) ==
    (IF ProcAlive(s_procs[name]) THEN 1 ELSE 0) + s_procs[name].told + s_procs[name].lost

\* Runner.create_worker: start a process and store its Worker under the
\* name; a Worker already stored under the name is dropped, not stopped
create_worker(procs, name) ==
    [procs EXCEPT ![name] =
        [cur |-> "alive",
         told |-> @.told + (IF @.cur = "told" THEN 1 ELSE 0),
         lost |-> @.lost + (IF @.cur = "alive" THEN 1 ELSE 0)]]

\* Worker.full_stop / Worker.terminate on a table entry
stop_process(procs, name) ==
    [procs EXCEPT ![name].cur = IF @ \in {"alive", "told"} THEN "dead" ELSE @]

\* HLSLoopedWorker._handle_event on KILL_HLS_STREAM sets the local flag
\* of the archiver and the processor
told_to_stop(procs, workers) ==
    [n \in SupNames |->
        IF n \in {"archiver", "processor"} /\ n \in workers /\ procs[n].cur = "alive"
        THEN [procs[n] EXCEPT !.cur = "told"]
        ELSE procs[n]]

\* handlers.hls_event: one message per registered worker with an hls_stream_queue
hls_event_pushes(workers, msg_type, data) ==
    {[to |-> w, msg_type |-> msg_type, msg |-> data] :
        w \in {x \in workers : IsHLSStatusSubscriber(x)}}

\* handlers.sxm_status_event: one message per registered worker with an sxm_status_queue
sxm_status_pushes(workers, status) ==
    {[to |-> w, msg_type |-> "SXM_STATUS",
      msg |-> <<IF status THEN "True" ELSE "False", "None">>] :
        w \in {x \in workers : IsSXMStatusSubscriber(x)}}

\* PlayerState.stream_data
stream_data(state) == <<state.stream_channel, state.stream_url>>

\* PlayerState.update_channels
update_channels(state, has_list) ==
    IF has_list
    THEN [state EXCEPT !.channels = TRUE]
    ELSE [state EXCEPT !.channels = FALSE, !.stream_url = "None",
                       !.stream_channel = "None"]

\* PlayerState.get_channel(name) is not None
get_channel(state, name) == state.channels /\ name = "ch1"

\* str() of the (channel_name, stream_protocol) tuple of a trigger event
TupleValue(msg) == "(" \o msg[1] \o ", " \o msg[2] \o ")"

\* the worker handle_kill_hls_stream_event looks up in each iteration
KillLookup(worker_name) == "hls"

\* the loop of handle_kill_hls_stream_event over (hls, archiver, processor):
\* [workers, procs, stopped]
RECURSIVE kill_loop(_, _, _, _)
kill_loop(names, workers, procs, stopped) ==
    IF names = <<>>
    THEN [workers |-> workers, procs |-> procs, stopped |-> stopped]
    ELSE LET worker_name == Head(names)
             worker == KillLookup(worker_name)
         IN IF worker \in workers
            THEN kill_loop(Tail(names), workers \ {worker_name},
                           stop_process(procs, worker),
                           IF ProcAlive(procs[worker])
                           THEN stopped \cup {worker} ELSE stopped)
            ELSE kill_loop(Tail(names), workers, procs, stopped)

\* handle_reset_sxm_event: [state, workers, procs, out]
handle_reset_sxm_event_mut_unguarded(state, workers, procs) ==
    [state |-> [update_channels(state, FALSE) EXCEPT !.sxm_running = FALSE],
     workers |-> workers \ {"sxm"},
     procs |-> stop_process(procs, "sxm"),
     out |-> sxm_status_pushes(workers \ {"sxm"}, FALSE)]
handle_reset_sxm_event(state, workers, procs) ==
    IF "sxm" \in workers
    THEN [state |-> [update_channels(state, FALSE) EXCEPT !.sxm_running = FALSE],
          workers |-> workers \ {"sxm"},
          procs |-> stop_process(procs, "sxm"),
          out |-> sxm_status_pushes(workers \ {"sxm"}, FALSE)]
    ELSE [state |-> state, workers |-> workers, procs |-> procs, out |-> {}]

\* "503" in line, for some line of the batch
HasResetLine(msg) == msg[1] = "503"

InitSup ==
    /\ s_state \in {[NewPlayerState EXCEPT !.output_folder = o] : o \in BOOLEAN}
    /\ s_workers = {"status_check", "cli"}
    /\ s_procs = [n \in SupNames |->
                    IF n \in {"status_check", "cli"}
                    THEN [NoProcs EXCEPT !.cur = "alive"] ELSE NoProcs]
    /\ s_queue = <<>>
    /\ s_out = {}
    /\ s_hls_setup = FALSE
    /\ s_count = [published |-> 0, spawned |-> 0]

\* a worker's push_event: the event joins Runner.event_queue
Publish(event) ==
    /\ s_count.published < MaxSupEvents
    /\ s_queue' = Append(s_queue, event)
    /\ s_count' = [s_count EXCEPT !.published = @ + 1]

\* event_loop, first half: spawn_sxm_worker while not connected and the
\* cooldown allows it
SpawnSxmWorker ==
    /\ ~s_state.channels
    /\ s_count.spawned < MaxSpawns
    /\ s_procs' = create_worker(s_procs, "sxm")
    /\ s_workers' = s_workers \cup {"sxm"}
    /\ s_count' = [s_count EXCEPT !.spawned = @ + 1]
    /\ UNCHANGED <<s_state, s_queue, s_out, s_hls_setup>>

\* ServerWorker.send_channel_list, StatusWorker.check_sxm on success
PublishUpdateChannels(src) ==
    /\ ProcAlive(s_procs[src])
    /\ src = "status_check" => s_state.sxm_running
    /\ Publish(SupEvent(src, "UPDATE_CHANNELS", <<"list", "None">>))
    /\ UNCHANGED <<s_state, s_workers, s_procs, s_out, s_hls_setup>>

\* StatusWorker.check_sxm after more than three failures
PublishResetSxm ==
    /\ ProcAlive(s_procs["status_check"])
    /\ s_state.sxm_running
    /\ Publish(SupEvent("status_check", "RESET_SXM", NoPayload))
    /\ UNCHANGED <<s_state, s_workers, s_procs, s_out, s_hls_setup>>

\* ServerWorker's update_handler: a playlist of the relayed channel updated
PublishUpdateMetadata ==
    /\ ProcAlive(s_procs["sxm"]) \/ s_procs["sxm"].lost > 0
    /\ AliveCount("hls") > 0
    /\ Publish(SupEvent("sxm", "UPDATE_METADATA", <<"ch1", "None">>))
    /\ UNCHANGED <<s_state, s_workers, s_procs, s_out, s_hls_setup>>

\* the player asks for a channel
PublishTrigger(channel_name) ==
    /\ ProcAlive(s_procs["cli"])
    /\ Publish(SupEvent("cli", "TRIGGER_HLS_STREAM", <<channel_name, "udp">>))
    /\ UNCHANGED <<s_state, s_workers, s_procs, s_out, s_hls_setup>>

\* HLSWorker.setup
RelaySetup ==
    /\ s_procs["hls"].cur = "alive"
    /\ ~s_hls_setup
    /\ s_hls_setup' = TRUE
    /\ Publish(SupEvent("hls", "HLS_STREAM_STARTED", StreamSet))
    /\ UNCHANGED <<s_state, s_workers, s_procs, s_out>>

\* HLSWorker.loop with decoder output
RelayLines(line) ==
    /\ s_procs["hls"].cur = "alive"
    /\ s_hls_setup
    /\ Publish(SupEvent("hls", "HLS_STDERROR_LINES", <<line, "None">>))
    /\ UNCHANGED <<s_state, s_workers, s_procs, s_out, s_hls_setup>>

\* HLSWorker leaves its loop by itself and runs cleanup()
RelayExits ==
    /\ s_procs["hls"].cur = "alive"
    /\ s_hls_setup
    /\ s_procs' = stop_process(s_procs, "hls")
    /\ Publish(SupEvent("hls", "KILL_HLS_STREAM", NoPayload))
    /\ UNCHANGED <<s_state, s_workers, s_out, s_hls_setup>>

\* ArchiveWorker._validate_size: the capture stopped growing
ArchiverStale ==
    /\ s_procs["archiver"].cur = "alive"
    /\ Publish(SupEvent("archiver", "KILL_HLS_STREAM", NoPayload))
    /\ UNCHANGED <<s_state, s_workers, s_procs, s_out, s_hls_setup>>

\* an archiver or processor whose local flag is set leaves run()
SubscriberExits(name) ==
    /\ name \in {"archiver", "processor"}
    /\ \/ /\ s_procs[name].cur = "told"
          /\ s_procs' = [s_procs EXCEPT ![name].cur = "dead"]
       \/ /\ s_procs[name].told > 0
          /\ s_procs' = [s_procs EXCEPT ![name].told = @ - 1]
    /\ UNCHANGED <<s_state, s_workers, s_queue, s_out, s_hls_setup, s_count>>

\* event_loop pops an event of the type
Pops(msg_type) ==
    /\ s_queue # <<>>
    /\ Head(s_queue).msg_type = msg_type

\* handle_update_channels_event, then event_loop's "SXM Client started" step
HandleUpdateChannels ==
    /\ Pops("UPDATE_CHANNELS")
    /\ LET event == Head(s_queue)
           was_connected == s_state.channels
           state == update_channels(s_state, TRUE)
           started == event.msg_src = "sxm" /\ ~was_connected /\ state.channels
       IN /\ s_state' = IF started THEN [state EXCEPT !.sxm_running = TRUE] ELSE state
          /\ s_out' = hls_event_pushes(s_workers, "UPDATE_CHANNELS", event.msg)
                        \cup (IF started THEN sxm_status_pushes(s_workers, TRUE) ELSE {})
    /\ s_queue' = Tail(s_queue)
    /\ UNCHANGED <<s_workers, s_procs, s_hls_setup, s_count>>

\* handle_reset_sxm_event
HandleResetSxm ==
    /\ Pops("RESET_SXM")
    /\ LET r == handle_reset_sxm_event(s_state, s_workers, s_procs)
       IN /\ s_state' = r.state
          /\ s_workers' = r.workers
          /\ s_procs' = r.procs
          /\ s_out' = r.out
    /\ s_queue' = Tail(s_queue)
    /\ UNCHANGED <<s_hls_setup, s_count>>

\* handle_hls_stderror_lines_event
HandleHlsStderrorLines ==
    /\ Pops("HLS_STDERROR_LINES")
    /\ LET do_reset == HasResetLine(Head(s_queue).msg)
           r == IF do_reset
                THEN handle_reset_sxm_event(s_state, s_workers, s_procs)
                ELSE [state |-> s_state, workers |-> s_workers, procs |-> s_procs,
                      out |-> {}]
       IN /\ s_state' = r.state
          /\ s_workers' = r.workers
          /\ s_procs' = r.procs
          /\ s_out' = r.out
    /\ s_queue' = Tail(s_queue)
    /\ UNCHANGED <<s_hls_setup, s_count>>

\* handle_trigger_hls_stream_event
HandleTriggerHlsStream ==
    /\ Pops("TRIGGER_HLS_STREAM")
    /\ LET event == Head(s_queue)
       IN IF "hls" \in s_workers
          THEN /\ s_out' = IF event.msg_src \in s_workers
                              /\ IsHLSStatusSubscriber(event.msg_src)
                           THEN {[to |-> event.msg_src,
                                  msg_type |-> "HLS_STREAM_STARTED",
                                  msg |-> stream_data(s_state)]}
                           ELSE {}
               /\ UNCHANGED <<s_state, s_workers, s_procs, s_hls_setup>>
          ELSE IF get_channel(s_state, event.msg[1])
          THEN /\ s_procs' = create_worker(s_procs, "hls")
               /\ s_workers' = s_workers \cup {"hls"}
               /\ s_hls_setup' = FALSE
               /\ s_state' = [s_state EXCEPT !.stream_channel = TupleValue(event.msg)]
               /\ s_out' = {}
          ELSE /\ s_out' = {}
               /\ UNCHANGED <<s_state, s_workers, s_procs, s_hls_setup>>
    /\ s_queue' = Tail(s_queue)
    /\ UNCHANGED s_count

\* handle_kill_hls_stream_event; a relay that full_stop() ends runs its
\* cleanup(), which publishes KILL_HLS_STREAM once more
HandleKillHlsStream ==
    /\ Pops("KILL_HLS_STREAM")
    /\ LET r == kill_loop(<<"hls", "archiver", "processor">>, s_workers,
                          told_to_stop(s_procs, s_workers), {})
       IN /\ s_state' = update_stream_data(s_state, NoPayload)
          /\ s_out' = hls_event_pushes(s_workers, "KILL_HLS_STREAM", NoPayload)
          /\ s_workers' = r.workers
          /\ s_procs' = r.procs
          /\ s_queue' = IF "hls" \in r.stopped
                        THEN Append(Tail(s_queue),
                                    SupEvent("hls", "KILL_HLS_STREAM", NoPayload))
                        ELSE Tail(s_queue)
    /\ UNCHANGED <<s_hls_setup, s_count>>

\* handle_hls_stream_started_event
HandleHlsStreamStarted ==
    /\ Pops("HLS_STREAM_STARTED")
    /\ LET event == Head(s_queue)
           state == update_stream_data(s_state, event.msg)
       IN /\ s_state' = state
          /\ s_out' = hls_event_pushes(s_workers, "HLS_STREAM_STARTED", stream_data(state))
          /\ IF state.output_folder
             THEN /\ s_procs' = create_worker(create_worker(s_procs, "archiver"),
                                              "processor")
                  /\ s_workers' = s_workers \cup {"archiver", "processor"}
             ELSE UNCHANGED <<s_workers, s_procs>>
    /\ s_queue' = Tail(s_queue)
    /\ UNCHANGED <<s_hls_setup, s_count>>

\* handle_update_metadata_event
HandleUpdateMetadata ==
    /\ Pops("UPDATE_METADATA")
    /\ LET event == Head(s_queue)
       IN /\ s_state' = [s_state EXCEPT !.stream_channel = event.msg[1]]
          /\ s_out' = hls_event_pushes(s_workers, "UPDATE_METADATA", event.msg)
    /\ s_queue' = Tail(s_queue)
    /\ UNCHANGED <<s_workers, s_procs, s_hls_setup, s_count>>

NextSup ==
    \/ SpawnSxmWorker /\ UNCHANGED nots
    \/ (\E src \in {"sxm", "status_check"} : PublishUpdateChannels(src)) /\ UNCHANGED nots
    \/ PublishResetSxm /\ UNCHANGED nots
    \/ PublishUpdateMetadata /\ UNCHANGED nots
    \/ (\E channel_name \in {"ch1", "bad"} : PublishTrigger(channel_name)) /\ UNCHANGED nots
    \/ RelaySetup /\ UNCHANGED nots
    \/ (\E line \in {"503", "ok"} : RelayLines(line)) /\ UNCHANGED nots
    \/ RelayExits /\ UNCHANGED nots
    \/ ArchiverStale /\ UNCHANGED nots
    \/ (\E name \in {"archiver", "processor"} : SubscriberExits(name)) /\ UNCHANGED nots
    \/ HandleUpdateChannels /\ UNCHANGED nots
    \/ HandleResetSxm /\ UNCHANGED nots
    \/ HandleHlsStderrorLines /\ UNCHANGED nots
    \/ HandleTriggerHlsStream /\ UNCHANGED nots
    \/ HandleKillHlsStream /\ UNCHANGED nots
    \/ HandleHlsStreamStarted /\ UNCHANGED nots
    \/ HandleUpdateMetadata /\ UNCHANGED nots

InitSupSpec ==
    /\ InitSup /\ IdleQueue /\ IdleWorker /\ IdleProc /\ IdleArch /\ IdleBackoff
    /\ IdleRunner /\ IdleEvented /\ IdleRelay /\ IdleStatus /\ IdleReplica /\ IdleFilter /\ IdleTimer

SpecSup == InitSupSpec /\ [][NextSup]_vars

\* both stream fields set, or both unset
StreamPaired(state) == (state.stream_url = "None") <=> (state.stream_channel = "None")

\* C22: in every reachable state of the supervisor's player state, after any
\* sequence of handled events, stream_url and stream_channel are both set or
\* both unset.
C22_StreamFieldsPaired == StreamPaired(s_state)

\* a valid TRIGGER_HLS_STREAM was handled: the relay is registered, the
\* channel field holds the event's tuple and the address is still unset
C22_Witness ==
    /\ "hls" \in s_workers
    /\ s_state.stream_channel = "(ch1, udp)"
    /\ s_state.stream_url = "None"

\* Runner.__exit__ returns `not exc_type` and discards the pair stop_workers
\* returns; main() ends with `return 0`.  The status the process exits with:
main_exit_status(exc_type, stop_result) == IF exc_type THEN 1 ELSE 0

\* the exit status once the with-block of main() has been left
ExitStatus == main_exit_status(r_sup.raised, r_sup.ret)

(***************************************************************************)
(* C23: the supervisor process exits with status 0 after a clean shutdown  *)
(* and with a non-zero status whenever at least one worker could not be    *)
(* terminated.                                                             *)
(***************************************************************************)
C23_ExitStatus ==
    r_sup.pc = "returned" =>
        /\ (r_workers = <<>> /\ ~r_sup.raised) => ExitStatus = 0
        /\ r_workers # <<>> => ExitStatus # 0

\* stop_workers returned from a shutdown no exception started, and one
\* worker survived its three terminate signals
C23_Witness ==
    /\ r_sup.pc = "returned"
    /\ ~r_sup.raised
    /\ Len(r_workers) = 1
    /\ Alive(r_workers[1])

(***************************************************************************)
(* C24: under every interleaving of TRIGGER_HLS_STREAM, HLS_STREAM_STARTED *)
(* and KILL_HLS_STREAM events, at most one relay process and at most one   *)
(* archiver process are alive.                                             *)
(***************************************************************************)
C24_OneRelayOneArchiver ==
    /\ AliveCount("hls") <= 1
    /\ AliveCount("archiver") <= 1

\* a second stream was started while the archiver of the first one, which
\* the kill handler told to stop but did not stop, is still running
C24_Witness ==
    /\ s_procs["archiver"].cur = "alive"
    /\ s_procs["archiver"].told = 1
    /\ AliveCount("hls") = 1
    /\ s_state.stream_url = "udp1"

\* run() has left its while loop
LeftLoop == w_pc \in {"cleanup", "stopped"}

(***************************************************************************)
(* C25: every looping worker, periodic (LoopedWorker) or evented, tests    *)
(* both shutdown flags on each iteration, so once only its local flag is   *)
(* set it eventually leaves its loop.                                      *)
(***************************************************************************)
C25_LocalFlagStops == local_shutdown_event ~> LeftLoop

\* a periodic worker back at its loop body after full_stop() set its local
\* flag, the global flag being clear
C25_Witness ==
    /\ w_kind = "looped"
    /\ local_shutdown_event
    /\ ~shutdown_event
    /\ w_pc = "tick"
    /\ w_ticks = MaxTicks

\* the except clause of run() was entered in this step
Raises == ~w_raised /\ w_raised'

(***************************************************************************)
(* C26: an exception raised by an event handler or by the loop body of an  *)
(* evented worker is caught inside run(): the worker goes to cleanup(),    *)
(* runs no further iteration of its loop body, takes no further event from *)
(* its queues, and its next step is cleanup() and the return from run();   *)
(* nothing is retried.                                                     *)
(***************************************************************************)
C26_ExceptionEndsRun ==
    [][/\ Raises => w_pc' = "cleanup"
       /\ w_raised =>
            /\ w_raised'
            /\ w_pc \in {"cleanup", "stopped"}
            /\ w_pc' \in {"cleanup", "stopped"}
            /\ w_ticks' = w_ticks
            /\ Len(hls_stream_queue') >= Len(hls_stream_queue)
            /\ Len(sxm_status_queue') >= Len(sxm_status_queue)
            /\ w_pc' = w_pc => w_state' = w_state /\ w_cleanups' = w_cleanups
            /\ w_pc = "cleanup" /\ w_pc' # w_pc =>
                    w_pc' = "stopped" /\ w_cleanups' = w_cleanups + 1
            /\ w_pc = "stopped" => w_pc' = "stopped" /\ w_cleanups' = w_cleanups]_vars

\* an archiver whose handler raised on its first event: a later event is
\* still in its queue, the loop body never ran, cleanup() ran once
C26_Witness ==
    /\ w_kind = "archiver"
    /\ w_raised
    /\ w_pc = "stopped"
    /\ w_ticks = 0
    /\ w_cleanups = 1
    /\ hls_stream_queue # <<>>

\* signals of both kinds the relay process has received
SignalsReceived == h_sig.int + h_sig.term

(***************************************************************************)
(* C27: with the default signal handler every SIGINT or SIGTERM sets the   *)
(* shutdown flag; the first two signals, counted together across both      *)
(* kinds, return normally and leave the process in run(), and the third    *)
(* signal raises the interrupt exception bound to its signal number.       *)
(***************************************************************************)
C27_SignalEscalation ==
    /\ h_termcalled = SignalsReceived
    /\ SignalsReceived >= 1 => h_shutdown
    /\ SignalsReceived \in 1..2 => h_sig.raised = "none" /\ h_pc # "killed"
    /\ SignalsReceived >= 3 =>
            /\ SignalsReceived = 3
            /\ h_sig.raised = ExceptionClass(h_sig.last)
            /\ h_pc = "killed"
    /\ h_pc = "killed" => SignalsReceived = 3

\* one SIGINT, then two SIGTERMs: the third signal raised TerminateInterrupt
C27_Witness ==
    /\ h_sig.int = 1
    /\ h_sig.term = 2
    /\ h_sig.last = "SIGTERM"
    /\ h_sig.raised = "TerminateInterrupt"
    /\ h_shutdown

\* cleanup() of the relay ran to its end: stop_ffmpeg(), then the push of
\* KILL_HLS_STREAM
RelayCleanedUp ==
    /\ h_process = "none"
    /\ \E i \in 1..Len(h_published) : h_published[i] = "KILL_HLS_STREAM"

(***************************************************************************)
(* C28: on every path by which the relay leaves the running state, the     *)
(* terminate escalation of the supervisor (repeated SIGTERM until the      *)
(* signal handler raises) included, cleanup() has run before the process   *)
(* ends: the decoder subprocess is stopped and KILL_HLS_STREAM is          *)
(* published.                                                              *)
(***************************************************************************)
C28_CleanupOnEveryPath == RelayEnded => RelayCleanedUp

\* Worker.terminate sent three SIGTERMs before the relay left its loop: the
\* process ended in the handler, the decoder is still running and only
\* HLS_STREAM_STARTED was ever published
C28_Witness ==
    /\ h_pc = "killed"
    /\ h_sig.term = 3
    /\ h_sig.raised = "TerminateInterrupt"
    /\ h_process = "alive"
    /\ h_published = <<"HLS_STREAM_STARTED">>

(***************************************************************************)
(* workers/status.py: the status checker.  Each execution of loop() is one *)
(* check_sxm(); the supervisor's SXM_STATUS events set the worker's copy   *)
(* of sxm_running.                                                         *)
(***************************************************************************)
CHECK_DELAY == 30       \* _delay after a poll that was no error, seconds
FAILING_DELAY == 5      \* _delay after an error response, seconds

MaxPolls == 5           \* executions of loop() followed

\* what httpx.get does: a response that is no error (is_error False), an
\* error response (4xx / 5xx), or no response at all (a transport error is
\* raised)
PollOutcomes == {"ok", "error", "raised"}

InitStatus == IdleStatus

\* SXMLoopedWorker._handle_event: SXM_STATUS replaces the copy of sxm_running
StatusSxmStatus(status) ==
    /\ c_pc = "loop"
    /\ c_running # status
    /\ c_running' = status
    /\ UNCHANGED <<c_pc, c_failures, c_delay, c_published, c_last>>

\* StatusWorker.loop: check_sxm(); an exception of httpx.get leaves loop()
\* and is caught by run(), which goes on to cleanup() and returns
StatusLoop(outcome) ==
    /\ c_pc = "loop"
    /\ c_last.n < MaxPolls
    /\ ~c_running => outcome = "ok"
    /\ LET c == check_sxm([sxm_running |-> c_running], c_failures, outcome = "error")
           raises == c_running /\ outcome = "raised"
       IN /\ c_pc' = IF raises THEN "stopped" ELSE "loop"
          /\ c_failures' = IF raises THEN c_failures ELSE c.failures
          /\ c_published' = IF raises THEN c_published ELSE c_published \o c.published
          /\ c_delay' = IF raises \/ ~c_running THEN c_delay
                        ELSE IF outcome = "error" THEN FAILING_DELAY ELSE CHECK_DELAY
          /\ c_last' = [n |-> c_last.n + 1, running |-> c_running,
                        outcome |-> IF c_running THEN outcome ELSE "none",
                        failures |-> c_failures,
                        published |-> IF raises THEN <<>> ELSE c.published]
    /\ UNCHANGED c_running

\* a shutdown flag is set: run() leaves its loop, cleanup() does nothing
StatusShutdown ==
    /\ c_pc = "loop"
    /\ c_pc' = "stopped"
    /\ UNCHANGED <<c_running, c_failures, c_delay, c_published, c_last>>

NextStatus ==
    \/ (\E status \in BOOLEAN : StatusSxmStatus(status)) /\ UNCHANGED notc
    \/ (\E outcome \in PollOutcomes : StatusLoop(outcome)) /\ UNCHANGED notc
    \/ StatusShutdown /\ UNCHANGED notc

InitStatusSpec ==
    /\ InitStatus /\ IdleQueue /\ IdleWorker /\ IdleProc /\ IdleArch /\ IdleBackoff
    /\ IdleRunner /\ IdleEvented /\ IdleRelay /\ IdleSup /\ IdleReplica /\ IdleFilter /\ IdleTimer

SpecStatus == InitStatusSpec /\ [][NextStatus]_vars

(***************************************************************************)
(* C29: the status checker polls the server only while its copy of         *)
(* sxm_running is true; every poll that is not a success adds one to the   *)
(* failure counter, and RESET_SXM is published on such a poll exactly when *)
(* the counter then exceeds 3; a successful poll sets the counter to zero  *)
(* and publishes UPDATE_CHANNELS.                                          *)
(***************************************************************************)
C29_StatusPoll ==
    c_last.n >= 1 =>
        /\ ~c_last.running =>
                /\ c_last.outcome = "none"
                /\ c_last.published = <<>>
                /\ c_failures = c_last.failures
        /\ c_last.running /\ c_last.outcome = "ok" =>
                /\ c_failures = 0
                /\ c_last.published = <<"UPDATE_CHANNELS">>
        /\ c_last.running /\ c_last.outcome \in {"error", "raised"} =>
                /\ c_failures = c_last.failures + 1
                /\ c_last.published = IF c_failures > 3 THEN <<"RESET_SXM">> ELSE <<>>

\* three error responses, then a poll that finds the server unreachable:
\* the fourth failed poll in a row ends the worker, nothing is published
C29_Witness ==
    /\ c_last.n = 4
    /\ c_last.running
    /\ c_last.outcome = "raised"
    /\ c_last.failures = 3
    /\ c_published = <<>>
    /\ c_pc = "stopped"

\* the supervisor handles an event that can ask for a reset of the server
ResetHandled ==
    /\ s_queue # <<>>
    /\ Head(s_queue).msg_type \in {"RESET_SXM", "HLS_STDERROR_LINES"}
    /\ Len(s_queue') < Len(s_queue)

\* the event asks for the reset: RESET_SXM, or a batch with a "503" line
AsksReset(event) == event.msg_type = "RESET_SXM" \/ HasResetLine(event.msg)

StreamKinds == {"hls", "archiver", "processor"}

InitWorkerLive == InitWorkerSpec /\ w_kind \in StreamKinds

SpecWorkerLive ==
    /\ InitWorkerLive
    /\ [][NextWorker]_vars
    /\ WF_vars(WorkerStep /\ UNCHANGED notw)
    /\ SF_vars(EventedTickLoop /\ UNCHANGED notw)

\* a relay that can still run its loop body
RelayTicking == w_kind = "hls" /\ w_ticks < MaxTicks

\* the relay has ended as cleanup() leaves it: decoder stopped,
\* KILL_HLS_STREAM published last; it left its loop by its own local flag
\* unless the global flag or an exception ended the loop first
RelayStopped ==
    /\ w_pc = "stopped"
    /\ w_process = "none"
    /\ w_published # <<>>
    /\ w_published[Len(w_published)] = "KILL_HLS_STREAM"
    /\ local_shutdown_event \/ shutdown_event \/ w_raised

\* the supervisor has relayed KILL_HLS_STREAM to the worker's stream queue
KillRelayed ==
    \E i \in 1..Len(hls_stream_queue) : hls_stream_queue[i].msg_type = "KILL_HLS_STREAM"

(***************************************************************************)
(* C31: after a reset of the server (the relay's copy of sxm_running is    *)
(* false and stays false) or after the decoder has died, the relay         *)
(* eventually sets its local shutdown flag, stops its decoder and          *)
(* publishes KILL_HLS_STREAM; and once the supervisor has relayed that     *)
(* event to the archiver and the processor, each of them eventually stops. *)
(***************************************************************************)
C31_StreamTeardown ==
    /\ (RelayTicking /\ w_process = "dead") ~> RelayStopped
    /\ (RelayTicking /\ ~w_state.sxm_running) ~> (RelayStopped \/ w_state.sxm_running)
    /\ (w_kind \in StreamKinds \ {"hls"} /\ KillRelayed) ~> w_pc = "stopped"

\* a relay that heard SXM_STATUS(False), set its own local flag on the next
\* tick and ended with KILL_HLS_STREAM, the global flag being clear
C31_Witness ==
    /\ w_kind = "hls"
    /\ ~w_state.sxm_running
    /\ w_sent >= 1
    /\ local_shutdown_event
    /\ ~shutdown_event
    /\ ~w_raised
    /\ RelayStopped

\* the supervisor handles a KILL_HLS_STREAM event
KillHandled ==
    /\ s_queue # <<>>
    /\ Head(s_queue).msg_type = "KILL_HLS_STREAM"
    /\ \/ s_queue' = Tail(s_queue)
       \/ s_queue' = Append(Tail(s_queue), SupEvent("hls", "KILL_HLS_STREAM", NoPayload))

(***************************************************************************)
(* C32: after the supervisor has handled a KILL_HLS_STREAM event, the      *)
(* relay, the archiver and the processor have each been stopped, none of   *)
(* the three is registered in the worker table any more, and stream_channel *)
(* and stream_url of the supervisor's state are both unset.                *)
(***************************************************************************)
C32_KillStopsAllThree ==
    [][KillHandled =>
        /\ \A n \in StreamKinds : n \notin s_workers' /\ s_procs'[n].cur # "alive"
        /\ s_state'.stream_channel = "None"
        /\ s_state'.stream_url = "None"]_vars

\* KILL_HLS_STREAM was handled with the three workers registered: the relay
\* is stopped and removed, the archiver and the processor are still in the
\* table, their processes running until they read the relayed event
C32_Witness ==
    /\ "hls" \notin s_workers
    /\ s_procs["hls"].cur = "dead"
    /\ {"archiver", "processor"} \subseteq s_workers
    /\ s_procs["archiver"].cur = "told"
    /\ s_procs["processor"].cur = "told"
    /\ s_state.stream_url = "None" /\ s_state.stream_channel = "None"
    /\ {m.to : m \in {x \in s_out : x.msg_type = "KILL_HLS_STREAM"}}
            = {"cli", "archiver", "processor"}

\* processes of the class that run without a table entry of their own
Orphans(procs, name) == procs[name].told + procs[name].lost

\* the step calls create_worker with the name while the Worker stored under
\* it has a live process: that process loses its table entry
CreatedOverLive(name) ==
    /\ name \in s_workers
    /\ ProcAlive(s_procs[name])
    /\ Orphans(s_procs', name) > Orphans(s_procs, name)

(***************************************************************************)
(* C33: the supervisor never calls create_worker with a name under which a *)
(* worker with a live process is registered: neither for the server worker *)
(* on a reconnect attempt, nor for the relay, the archiver and the         *)
(* processor, whatever the order of the incoming events.                   *)
(***************************************************************************)
C33_NoCreateOverLive ==
    [][\A name \in {"sxm"} \cup StreamKinds : ~CreatedOverLive(name)]_vars

\* HLS_STREAM_STARTED of a second stream was handled while the processor of
\* the first one was still registered and running: a second processor was
\* created under the same name
C33_Witness ==
    /\ "processor" \in s_workers
    /\ s_procs["processor"].cur = "alive"
    /\ s_procs["processor"].told = 1
    /\ s_state.stream_url = "udp1"

(***************************************************************************)
(* The processor while one song is played again and again: the live       *)
(* metadata lists the most recent cut markers, in the order of airing.     *)
(***************************************************************************)
\* song_cuts of a live snapshot: up to MaxCuts consecutive airings
ReplayWindows ==
    {SubSeq(Replays, i, j) : i \in 1..Len(Replays),
                             j \in 1..Len(Replays)} \cap SeqsUpTo(Guids, MaxCuts)

\* HLSLoopedWorker._handle_event(UPDATE_METADATA) with such a snapshot
ReplayUpdateMetadata ==
    /\ p_pc = "idle"
    /\ \E sc \in ReplayWindows :
        /\ p_live' = [has |-> TRUE, song_cuts |-> sc, episode_markers |-> <<>>]
        /\ p_live'# p_live
    /\ UNCHANGED <<p_pc, p_todo, p_channel, p_folder, p_db, p_adds, p_last, p_ticks>>

\* chunk files the archiver writes meanwhile, named (start, end) in seconds
ReplayArchiveNames == {<<70, 160>>, <<5, 605>>}

\* the archiver writes a chunk file into the channel's archive folder
ReplayArchiveWritten ==
    /\ p_pc = "idle"
    /\ \E a \in ReplayArchiveNames \ p_folder : p_folder' = p_folder \cup {a}
    /\ UNCHANGED <<p_pc, p_todo, p_channel, p_live, p_db, p_adds, p_last, p_ticks>>

InitReplay ==
    /\ p_pc = "idle"
    /\ p_todo = <<>>
    /\ p_channel = "ch1"
    /\ p_live = NoLive
    /\ p_folder = {}
    /\ p_db = <<>>
    /\ p_adds = [g \in Guids |-> 0]
    /\ p_last = NoSplice
    /\ p_ticks = 0

NextReplay ==
    \/ ReplayUpdateMetadata /\ UNCHANGED notp
    \/ ReplayArchiveWritten /\ UNCHANGED notp
    \/ ProcArchiveDeleted /\ UNCHANGED notp
    \/ ProcLoop /\ UNCHANGED notp
    \/ ProcCutSkipped /\ UNCHANGED notp
    \/ ProcCutNoArchive /\ UNCHANGED notp
    \/ ProcCutSpliceFailed /\ UNCHANGED notp
    \/ ProcCutInserted /\ UNCHANGED notp
    \/ ProcLoopDone /\ UNCHANGED notp

InitReplaySpec ==
    /\ InitReplay /\ IdleQueue /\ IdleWorker /\ IdleArch /\ IdleBackoff /\ IdleRunner
    /\ IdleEvented /\ IdleRelay /\ IdleSup /\ IdleStatus /\ IdleReplica /\ IdleFilter /\ IdleTimer

SpecReplay == InitReplaySpec /\ [][NextReplay]_vars

\* rows of the songs table with the title and the artist
SongRows(title, artist) ==
    {i \in 1..Len(p_db) :
        p_db[i].table = "songs" /\ p_db[i].title = title /\ p_db[i].artist = artist}

(***************************************************************************)
(* C34: the number of persisted Song records with the same (title, artist) *)
(* pair never exceeds 3, however many distinct cut markers there are and   *)
(* whatever characters the title and the artist contain.                   *)
(***************************************************************************)
C34_DuplicateCap ==
    \A i \in 1..Len(p_db) :
        p_db[i].table = "songs" =>
            Cardinality(SongRows(p_db[i].title, p_db[i].artist)) <= MAX_DUPLICATE_COUNT

\* the song "(A)" by X was played four times: four rows with the title "A"
\* and the artist "X" are persisted
C34_Witness ==
    /\ Len(p_db) = 4
    /\ {p_db[i].guid : i \in 1..4} = {"g2", "g5", "g6", "g7"}
    /\ \A i \in 1..4 : p_db[i].title = <<"A">> /\ p_db[i].artist = <<"X">>
    /\ Cardinality(SongRows(<<"A">>, <<"X">>)) = 4

\* the chunk's window holds the cut and the padding on both sides
HoldsPaddedCut(archive, cut) ==
    /\ from_fs_datetime(archive[1]) < cut.time - CUT_PADDING
    /\ from_fs_datetime(archive[2]) > cut.time + cut.duration + CUT_PADDING

\* _process_cuts passes the next cut of the tick to _process_cut
CutProcessed ==
    /\ p_pc = "cuts"
    /\ p_todo # <<>>
    /\ ~SkipsCut(p_db, Cuts[Head(p_todo)])
    /\ p_todo' # p_todo

(***************************************************************************)
(* C35: a cut with no covering chunk on a tick produces no record and no   *)
(* error on that tick and is not marked as failed: on a later tick on      *)
(* which a covering chunk exists, the cut is still in the live metadata    *)
(* and dedup does not exclude it, the cut is spliced on that tick (and its *)
(* record inserted, when the decoder delivers the clip).                   *)
(***************************************************************************)
C35_RetriedWhenCovered ==
    [][CutProcessed =>
        LET cut == Cuts[Head(p_todo)]
        IN IF \E a \in p_folder : HoldsPaddedCut(a, cut)
           THEN /\ p_last'.guid = cut.guid
                /\ p_last'.archive \in p_folder
                /\ \/ HasGuid(p_db', TableOf(cut), cut.guid)
                   \/ p_db' = p_db
           ELSE /\ p_db' = p_db
                /\ p_last' = p_last
                /\ p_pc' = "cuts"]_vars

\* the cut g2 (100.5 s, 30.4 s) was processed on two ticks while the folder
\* held the chunk [70 s, 160 s], which holds it with 20 s on both sides:
\* no splice was attempted and nothing was inserted
C35_Witness ==
    /\ p_ticks = MaxProcTicks
    /\ p_pc = "cuts"
    /\ p_todo = <<>>
    /\ p_live.song_cuts = <<"g2">>
    /\ p_folder = {<<70, 160>>}
    /\ p_last = NoSplice
    /\ p_db = <<>>

(***************************************************************************)
(* C36: when the decoder exits non-zero while the archiver splices a       *)
(* chunk, the archive folder is left as it was before the tick (no partial *)
(* output file stays behind, no chunk that was there is deleted), and the  *)
(* same chunk is attempted again on the next tick that computes the same   *)
(* chunk from the same capture.                                            *)
(***************************************************************************)
C36_FailedSpliceLeavesFolder ==
    /\ a_last.path = "splice_failed" =>
        /\ a_last.created = {}
        /\ a_last.deleted = {}
    /\ (/\ a_prev.path = "splice_failed"
        /\ ReachedChunks(a_last)
        /\ a_last.start_time = a_prev.start_time
        /\ a_last.chunks = a_prev.chunks)
            => /\ a_last.path \in {"rolled", "splice_failed"}
               /\ a_last.name = a_prev.name

\* the chunk [5 s, 605 s] was rolled on the first tick; on the second tick
\* the chunk [5 s, 1205 s] is due, the decoder exits non-zero without leaving
\* a file, and the chunk [5 s, 605 s] is gone
C36_Witness ==
    /\ a_prev.path = "rolled"
    /\ a_prev.name = <<5, 605>>
    /\ a_last.path = "splice_failed"
    /\ a_last.name = <<5, 1205>>
    /\ a_last.created = {}
    /\ \E f \in a_last.deleted : f.name = <<5, 605>> /\ f.whole
    /\ a_folder = {}

(***************************************************************************)
(* One subscriber of the stream queue and the owners of what it            *)
(* replicates: the supervisor's handlers push each owner's event to the    *)
(* subscriber's hls_stream_queue with push_event, which only logs a failed *)
(* put.  One put fails in a behaviour.                                     *)
(***************************************************************************)
MaxChanges == 3         \* new values the owners publish in one behaviour
MaxInbox == 2           \* events waiting in the subscriber's queue

ChannelLists == {"list1", "list2"}
LiveSnapshots == {"m1", "m2"}

\* handlers.push_event to the subscriber: safe_put succeeds, or it fails and
\* the failure is logged
PushToSubscriber(msg_type, msg, field) ==
    IF d_pc = "running"
    THEN \/ /\ d_inbox' = Append(d_inbox, [msg_type |-> msg_type, msg |-> msg])
            /\ UNCHANGED d_dropped
         \/ /\ d_dropped = "none"
            /\ d_dropped' = field
            /\ UNCHANGED d_inbox
    ELSE UNCHANGED <<d_inbox, d_dropped>>

\* the owner has a new value: counted
Changes(old, new) ==
    /\ old # new => d_changes < MaxChanges
    /\ d_changes' = IF old # new THEN d_changes + 1 ELSE d_changes

InitReplica ==
    /\ d_kind \in {"archiver", "processor", "cli"}
    /\ d_pc = IF d_kind = "cli" THEN "running" ELSE "none"
    /\ d_owner = [NoFields EXCEPT !.channels = "list1"]
    /\ d_copy = IF d_kind = "cli" THEN [NoFields EXCEPT !.channels = "list1"] ELSE NoFields
    /\ d_inbox = <<>>
    /\ d_dropped = "none"
    /\ d_changes = 0

\* StatusWorker.check_sxm on success publishes UPDATE_CHANNELS, every
\* CHECK_DELAY seconds; handle_update_channels_event
ReplicaUpdateChannels(channels) ==
    /\ Len(d_inbox) < MaxInbox
    /\ Changes(d_owner.channels, channels)
    /\ d_owner' = [d_owner EXCEPT !.channels = channels]
    /\ PushToSubscriber("UPDATE_CHANNELS", channels, "channels")
    /\ UNCHANGED <<d_kind, d_pc, d_copy>>

\* ServerWorker's update handler publishes UPDATE_METADATA whenever the
\* relay's decoder fetches the playlist; handle_update_metadata_event
ReplicaUpdateMetadata(live) ==
    /\ d_owner.stream # "None"
    /\ Len(d_inbox) < MaxInbox
    /\ Changes(d_owner.live, live)
    /\ d_owner' = [d_owner EXCEPT !.live = live]
    /\ PushToSubscriber("UPDATE_METADATA", live, "live")
    /\ UNCHANGED <<d_kind, d_pc, d_copy>>

\* HLSWorker.setup publishes HLS_STREAM_STARTED, once;
\* handle_hls_stream_started_event pushes it to the subscribers there are
\* and then creates the archiver and the processor from its own state
ReplicaStreamStarted ==
    /\ d_owner.stream = "None"
    /\ Len(d_inbox) < MaxInbox
    /\ Changes("None", "udp1")
    /\ d_owner' = [d_owner EXCEPT !.stream = "udp1"]
    /\ IF d_kind = "cli"
       THEN /\ PushToSubscriber("HLS_STREAM_STARTED", "udp1", "stream")
            /\ UNCHANGED <<d_pc, d_copy>>
       ELSE /\ d_pc' = "running"
            /\ d_copy' = d_owner'
            /\ d_inbox' = <<>>
            /\ UNCHANGED d_dropped
    /\ UNCHANGED d_kind

\* HLSWorker.cleanup publishes KILL_HLS_STREAM, once;
\* handle_kill_hls_stream_event (which stops and removes the relay only)
ReplicaStreamKilled ==
    /\ d_owner.stream # "None"
    /\ Len(d_inbox) < MaxInbox
    /\ Changes(d_owner.stream, "None")
    /\ d_owner' = [d_owner EXCEPT !.stream = "None"]
    /\ PushToSubscriber("KILL_HLS_STREAM", "None", "stream")
    /\ UNCHANGED <<d_kind, d_pc, d_copy>>

\* EventedWorker.run takes the next event; HLSLoopedWorker._handle_event
\* and CLIPlayerWorker._handle_event
ReplicaHandleEvent ==
    /\ d_pc = "running"
    /\ d_inbox # <<>>
    /\ LET event == Head(d_inbox)
       IN CASE event.msg_type = "UPDATE_CHANNELS" ->
                 d_copy' = [d_copy EXCEPT !.channels = event.msg] /\ UNCHANGED d_pc
            [] event.msg_type = "UPDATE_METADATA" ->
                 d_copy' = [d_copy EXCEPT !.live = event.msg] /\ UNCHANGED d_pc
            [] event.msg_type = "HLS_STREAM_STARTED" ->
                 d_copy' = [d_copy EXCEPT !.stream = event.msg] /\ UNCHANGED d_pc
            [] event.msg_type = "KILL_HLS_STREAM" /\ d_kind = "cli" ->
                 d_copy' = [d_copy EXCEPT !.stream = "None"] /\ UNCHANGED d_pc
            [] OTHER ->
                 d_pc' = "stopped" /\ UNCHANGED d_copy
    /\ d_inbox' = Tail(d_inbox)
    /\ UNCHANGED <<d_kind, d_owner, d_dropped, d_changes>>

\* CLIPlayerWorker.loop: without an address it asks for the stream every
\* 10 s and handle_trigger_hls_stream_event answers with the address of the
\* running relay; with the address of a relay that is gone its player ends
\* and cleanup() unsets the address
ReplicaPlayerLoop ==
    /\ d_kind = "cli"
    /\ d_pc = "running"
    /\ \/ /\ d_copy.stream = "None"
          /\ d_owner.stream # "None"
          /\ Len(d_inbox) < MaxInbox
          /\ PushToSubscriber("HLS_STREAM_STARTED", d_owner.stream, "stream")
          /\ UNCHANGED d_copy
       \/ /\ d_copy.stream # "None"
          /\ d_owner.stream = "None"
          /\ d_copy' = [d_copy EXCEPT !.stream = "None"]
          /\ UNCHANGED <<d_inbox, d_dropped>>
    /\ UNCHANGED <<d_kind, d_pc, d_owner, d_changes>>

\* ArchiveWorker._validate_size: the capture of a relay that is gone does
\* not grow, the archiver publishes KILL_HLS_STREAM and
\* handle_kill_hls_stream_event pushes it to the subscribers
ReplicaArchiverStale ==
    /\ d_kind = "archiver"
    /\ d_pc = "running"
    /\ d_owner.stream = "None"
    /\ Len(d_inbox) < MaxInbox
    /\ PushToSubscriber("KILL_HLS_STREAM", "None", "stream")
    /\ UNCHANGED <<d_kind, d_pc, d_owner, d_copy, d_changes>>

NextReplica ==
    \/ (\E channels \in ChannelLists : ReplicaUpdateChannels(channels)) /\ UNCHANGED notd
    \/ (\E live \in LiveSnapshots : ReplicaUpdateMetadata(live)) /\ UNCHANGED notd
    \/ ReplicaStreamStarted /\ UNCHANGED notd
    \/ ReplicaStreamKilled /\ UNCHANGED notd
    \/ ReplicaHandleEvent /\ UNCHANGED notd
    \/ ReplicaPlayerLoop /\ UNCHANGED notd
    \/ ReplicaArchiverStale /\ UNCHANGED notd

InitReplicaSpec ==
    /\ InitReplica /\ IdleQueue /\ IdleWorker /\ IdleProc /\ IdleArch /\ IdleBackoff
    /\ IdleRunner /\ IdleEvented /\ IdleRelay /\ IdleSup /\ IdleStatus
    /\ IdleFilter /\ IdleTimer

\* the subscriber keeps running, the status checker keeps polling, the
\* playlist keeps being fetched while a relay runs, and the player and the
\* archiver keep ticking; the queue is unbounded, so a publisher that finds
\* MaxInbox events waiting gets its turn once the subscriber has taken one
SpecReplica ==
    /\ InitReplicaSpec
    /\ [][NextReplica]_vars
    /\ WF_vars(ReplicaHandleEvent /\ UNCHANGED notd)
    /\ SF_vars(ReplicaUpdateChannels(d_owner.channels) /\ UNCHANGED notd)
    /\ SF_vars(ReplicaUpdateMetadata(d_owner.live) /\ UNCHANGED notd)
    /\ SF_vars(ReplicaPlayerLoop /\ UNCHANGED notd)
    /\ SF_vars(ReplicaArchiverStale /\ UNCHANGED notd)

\* the subscriber's copy of the field is its owner's value, or the
\* subscriber has left its loop
Healed(field) == d_copy[field] = d_owner[field] \/ d_pc = "stopped"

(***************************************************************************)
(* C37: when one event put to a subscriber's queue is dropped, the         *)
(* subscriber's copy of the field the event carried (channel list, live    *)
(* metadata, stream address) eventually equals the owner's current value   *)
(* again, without a retry of the dropped message, because the owner        *)
(* publishes the field again (the metadata for as long as a stream runs).  *)
(***************************************************************************)
C37_DropHeals ==
    /\ (d_dropped = "channels") ~> Healed("channels")
    /\ (d_dropped = "live") ~> (Healed("live") \/ d_owner.stream = "None")
    /\ (d_dropped = "stream") ~> Healed("stream")

\* the KILL_HLS_STREAM pushed to the processor was dropped: the supervisor
\* has no stream any more, the processor still runs with the old address
\* and nothing is waiting in its queue
C37_Witness ==
    /\ d_kind = "processor"
    /\ d_pc = "running"
    /\ d_dropped = "stream"
    /\ d_owner.stream = "None"
    /\ d_copy.stream = "udp1"
    /\ d_inbox = <<>>

\* CLIPlayerWorker._handle_event applied to the worker's [state, local, process]
Handled(w, event) == handle_event("cli", event, w.state, w.local, w.process)

(***************************************************************************)
(* C38: for the worker subscribed to both queues, handling an event of the *)
(* status queue and an event of the stream queue leads to the same         *)
(* replicated state in either order, and handling an event twice leads to  *)
(* the same state as handling it once.                                     *)
(***************************************************************************)
C38_OrderAndRepeat ==
    e_pc = "events" =>
        /\ \A h \in HlsQueueEvents(1) :
              LET wh == Handled(e_w, h)
              IN /\ Handled(wh, h) = wh
                 /\ \A x \in SxmQueueEvents(2) :
                       Handled(wh, x) = Handled(Handled(e_w, x), h)
        /\ \A x \in SxmQueueEvents(2) :
              LET wx == Handled(e_w, x) IN Handled(wx, x) = wx

\* one iteration took KILL_HLS_STREAM from the stream queue and
\* SXM_STATUS(True) from the status queue while the player was running
C38_Witness ==
    /\ e_pc = "tick"
    /\ Cardinality(e_iter.handled) = 2
    /\ e_last.n >= 1
    /\ e_w.state.sxm_running
    /\ e_w.state.stream_url = "None"
    /\ e_w.process = "none"

(***************************************************************************)
(* workers/processor.py: _path_filter on its own, called with the titles   *)
(* and artist names of the cuts the processor splices.                     *)
(***************************************************************************)
MaxWordLen == 3         \* longest word built from WordChars
MaxFilterCalls == 2     \* calls of _path_filter followed

\* the characters of the one- and two-character patterns, a blank and a letter
WordChars == {"/", "@", "(", ")", " ", "A"}

\* the words the long patterns are written for
KnownWords ==
    {<<"C","o","u","n","t","e","r","f","e","i","t",".">>,
     <<"F","*","*","k","e","r">>,
     <<"T","r","u","s","t","?">>,
     <<"P",".","O",".","D",".">>,
     <<"P",".","O",".","(","D",".">>}

\* titles and names a cut can carry
Words ==
    KnownWords \cup UNION {[1..n -> WordChars] : n \in 0..MaxWordLen}

\* the replace calls of _path_filter, in the order of the source
Replacements ==
    << [old |-> <<"C","o","u","n","t","e","r","f","e","i","t",".">>,
        new |-> <<"C","o","u","n","t","e","r","f","e","i","t">>],
       [old |-> <<"F","*","*","k","e","r">>, new |-> <<"F","u","c","k","e","r">>],
       [old |-> <<"T","r","u","s","t","?">>, new |-> <<"T","r","u","s","t">>],
       [old |-> <<"P",".","O",".","D",".">>, new |-> <<"P","O","D">>],
       [old |-> <<"/","/">>, new |-> <<"-">>],
       [old |-> <<"@">>, new |-> <<>>],
       [old |-> <<"(">>, new |-> <<>>],
       [old |-> <<")">>, new |-> <<>>] >>

\* the replace calls made in the given order, then strip()
RECURSIVE ReplaceIn(_, _)
ReplaceIn(order, word) ==
    IF order = <<>> THEN Strip(word)
    ELSE ReplaceIn(Tail(order),
                   Replace(word, Replacements[Head(order)].old,
                           Replacements[Head(order)].new))

\* the replace calls of rest made on word, then strip(), give name in
\* every order they can be made in
RECURSIVE SameInEveryOrder(_, _, _)
SameInEveryOrder(rest, word, name) ==
    IF rest = {} THEN Strip(word) = name
    ELSE \A i \in rest :
            SameInEveryOrder(rest \ {i},
                             Replace(word, Replacements[i].old, Replacements[i].new),
                             name)

InitFilter == IdleFilter

\* _process_cut calls _path_filter(word) and uses what it returns
PathFilterCall(word) ==
    /\ f_calls < MaxFilterCalls
    /\ f_word' = word
    /\ f_name' = path_filter(word)
    /\ f_calls' = f_calls + 1

NextFilter == \E word \in Words : PathFilterCall(word) /\ UNCHANGED notf

InitFilterSpec ==
    /\ InitFilter /\ IdleQueue /\ IdleWorker /\ IdleProc /\ IdleArch /\ IdleBackoff
    /\ IdleRunner /\ IdleEvented /\ IdleRelay /\ IdleSup /\ IdleStatus
    /\ IdleReplica /\ IdleTimer

SpecFilter == InitFilterSpec /\ [][NextFilter]_vars

\* _path_filter is the replace calls made in the order of the source
FilterOrderOfSource ==
    f_calls > 0 => f_name = ReplaceIn(<<1, 2, 3, 4, 5, 6, 7, 8>>, f_word)

(***************************************************************************)
(* C39: what _path_filter returned for a word is what the replace calls    *)
(* give for that word in every order they can be made in.                  *)
(***************************************************************************)
C39_OrderIndependent ==
    f_calls > 0 => SameInEveryOrder(DOMAIN Replacements, f_word, f_name)

\* _path_filter was called with "/@/" and returned "//", which the
\* replace of "//" would still change
C39_Witness ==
    /\ f_calls > 0
    /\ f_word = <<"/", "@", "/">>
    /\ f_name = <<"/", "/">>
    /\ ReplaceIn(<<6, 5, 1, 2, 3, 4, 7, 8>>, f_word) = <<"-">>

(***************************************************************************)
(* workers/archiver.py, workers/base.py: when the archiver's loop() first  *)
(* runs.  __init__ sets _last_loop from monotonic(), run() compares it     *)
(* with time.time(); both clocks are followed, in seconds.                 *)
(***************************************************************************)
MaxTimerClock == 1500   \* monotonic() the archiver is followed to
MaxTimerTicks == 2      \* runs of loop() followed

\* time.time() - monotonic() on the machines the player runs on: the epoch
\* second the machine was booted at
BootEpochs == {1500000000, 1700000000}

\* monotonic() when the archiver is constructed
Uptimes == {0, 90, 3600}

\* the seconds that pass between two looks at the archiver
ClockSteps == {30, 60}

\* ArchiveWorker._delay = ARCHIVE_CHUNK.total_seconds()
ArchiverDelay == ARCHIVE_CHUNK \div 1000

\* time.time()
WallClock == t_boot + t_mono

InitTimer ==
    /\ t_pc = "none"
    /\ t_boot \in BootEpochs
    /\ t_mono \in Uptimes
    /\ t_built = 0
    /\ t_last_loop = 0
    /\ t_ticks = 0
    /\ t_first = -1

\* ArchiveWorker.__init__, then run() is entered
ArchiverInit ==
    /\ t_pc = "none"
    /\ t_pc' = "running"
    /\ t_built' = t_mono
    /\ t_last_loop' = t_mono + 60
    /\ UNCHANGED <<t_boot, t_mono, t_ticks, t_first>>

\* time passes while run() blocks in safe_get
TimerPass(d) ==
    /\ t_pc = "running"
    /\ t_mono + d <= t_built + MaxTimerClock
    /\ t_mono' = t_mono + d
    /\ UNCHANGED <<t_pc, t_boot, t_built, t_last_loop, t_ticks, t_first>>

\* run(): the loop body is due, loop() runs and _last_loop = time.time()
ArchiverLoopDue ==
    /\ t_pc = "running"
    /\ t_ticks < MaxTimerTicks
    /\ LoopDue(WallClock, t_last_loop, ArchiverDelay)
    /\ t_ticks' = t_ticks + 1
    /\ t_last_loop' = WallClock
    /\ t_first' = IF t_first = -1 THEN t_mono ELSE t_first
    /\ UNCHANGED <<t_pc, t_boot, t_mono, t_built>>

\* run(): the loop body is not due
ArchiverLoopSkip ==
    /\ t_pc = "running"
    /\ ~LoopDue(WallClock, t_last_loop, ArchiverDelay)
    /\ UNCHANGED tvars

NextTimer ==
    \/ ArchiverInit /\ UNCHANGED nott
    \/ \E d \in ClockSteps : TimerPass(d) /\ UNCHANGED nott
    \/ ArchiverLoopDue /\ UNCHANGED nott
    \/ ArchiverLoopSkip /\ UNCHANGED nott

InitTimerSpec ==
    /\ InitTimer /\ IdleQueue /\ IdleWorker /\ IdleProc /\ IdleArch /\ IdleBackoff
    /\ IdleRunner /\ IdleEvented /\ IdleRelay /\ IdleSup /\ IdleStatus
    /\ IdleReplica /\ IdleFilter

SpecTimer == InitTimerSpec /\ [][NextTimer]_vars

(***************************************************************************)
(* C40: the archiver's loop() does not run for the first time before a     *)
(* full chunk length (10 minutes) has passed since the archiver was        *)
(* constructed.                                                            *)
(***************************************************************************)
C40_FirstTickAfterChunk ==
    t_first # -1 => t_first - t_built >= ArchiverDelay

\* loop() ran in the iteration that followed the construction, no time
\* having passed
C40_Witness ==
    /\ t_pc = "running"
    /\ t_ticks = 1
    /\ t_first = t_built
    /\ t_last_loop = t_boot + t_built

====
